---- MODULE Spec2Model ----
(***************************************************************************)
(* CAUGHT-IN-CLASS: the frame-to-detection pipeline of workers.py.         *)
(*                                                                         *)
(* Two threads act on one DetectionWorker object:                          *)
(*   - the detection thread, executing DetectionWorker.run() and, inline,  *)
(*     process_frame() and the _process_*_face() helpers;                  *)
(*   - the UI thread, executing the slots of AttendanceApp that call       *)
(*     queue_frame(), reset_session() and set_processing_interval().       *)
(* No lock protects the shared attributes, so each thread is modelled as   *)
(* a program counter over the attribute reads and writes of its code; one  *)
(* action is one such read or write (an atomic step under the GIL).        *)
(*                                                                         *)
(* Units: time in quarter seconds; embedding coordinates and distances in  *)
(* tenths.                                                                 *)
(***************************************************************************)
EXTENDS Integers, Sequences, FiniteSets

\* ------------------------------------------------------------- bounds
MaxFrames == 2      \* frames the camera delivers in one run of the model
MaxTicks == 4       \* quarter seconds of wall-clock time that may pass
StartTime == 20     \* wall clock (datetime.now().timestamp()) at worker start
MaxOps == 2         \* registrations and refreshes of the face registry
MaxReads == 4       \* capture.read() calls of one camera thread
MaxLen == 3         \* entries of a list handed to the de-duplication

\* ---------------------------------------------------- program constants
MinInterval == 2        \* max(0.5, interval): 0.5 s
DefaultInterval == 8    \* self.processing_interval = 2 (seconds)
ThresholdSq == 36       \* face_distances[best] < 0.6, squared, in tenths

\* ------------------------------------------------------------- inputs
\* An embedding is <<head, tail>>: head stands for the leading 16 bytes of
\* the encoding (the part hex()[:32] keeps), tail for the remaining bytes.
EncBob == <<0, 0>>      \* the enrolled identity
EncBobTilt == <<0, 4>>  \* same person, another frame: distance 0.4
EncEdge == <<6, 0>>     \* a stranger at distance exactly 0.6
EncFar == <<9, 0>>      \* a stranger far away

\* What one camera frame may show: the embeddings of the faces located.
Scenes ==
    { <<>>, <<EncBob, EncBobTilt>>, <<EncEdge, EncBob>>, <<EncFar>> }

\* The scenes with a known face, and those without.
FaceScenes == { s \in Scenes : \E i \in 1..Len(s) : s[i] = EncBob }
PlainScenes == Scenes \ FaceScenes

\* Values a caller may pass to set_processing_interval (quarter seconds):
\* negative, zero, below the floor, above the floor.
IntervalArgs == {-1, 0, 1, 3}

\* Lists a caller may pass to update_known_faces.
EncAl == <<0, 8>>       \* a second identity, as far from EncBobTilt as Bob

MatchRegistries ==
    { [encodings |-> <<>>, names |-> <<>>],
      [encodings |-> <<EncBob, EncAl>>, names |-> <<"Bob", "Al">>],
      [encodings |-> <<EncAl, EncBob>>, names |-> <<"Al", "Bob">>] }

NoArg == [encodings |-> <<>>, names |-> <<>>]

\* A name that str.encode() refuses: it holds a lone surrogate, as the
\* name os.listdir gives for a file name that is not valid UTF-8.
UnencodableName == "Zo<dceb>"

\* Lists naming the enrolled person so.
FaultRegistries ==
    { [encodings |-> <<EncBob>>, names |-> <<UnencodableName>>] }

NoFrame == [id |-> 0, faces |-> <<>>]
SlotNone == [st |-> "none", id |-> 0, faces |-> <<>>]
SlotDeleted == [st |-> "deleted", id |-> 0, faces |-> <<>>]
SlotOf(f) == [st |-> "frame", id |-> f.id, faces |-> f.faces]

VARIABLES
    \* attributes of the DetectionWorker object
    running, known_face_encodings, known_face_names,
    session_seen_known, session_seen_unknown_hashes,
    last_processing_time, processing_interval, pending_frame,
    \* the detection thread: position in run()/process_frame() and locals
    detPc, frame, faceIdx, cand, detection_results,
    \* the UI thread: position in its current slot, the frame it queues and
    \* the lists it passes to update_known_faces
    uiPc, uiFrame, uiArg,
    \* the FaceManager object, the known-faces directory, encodings.pkl
    face_manager, faces_dir, encodings_pkl,
    \* the CameraWorker object with the position of its thread, the flag
    \* is_running of the application, and which lists of the detection
    \* worker are the registry's own list objects
    camera_worker, is_running, shared,
    \* session_records of the application, and the detection_result
    \* signals emitted by the worker and not yet delivered to the UI thread
    session_records, detection_signals,
    \* environment: wall clock and number of frames delivered so far
    now, nextId,
    \* observation (never read by the program)
    obs

vars ==
    << running, known_face_encodings, known_face_names,
       session_seen_known, session_seen_unknown_hashes,
       last_processing_time, processing_interval, pending_frame,
       detPc, frame, faceIdx, cand, detection_results,
       uiPc, uiFrame, uiArg, face_manager, faces_dir, encodings_pkl,
       camera_worker, is_running, shared, session_records,
       detection_signals, now, nextId, obs >>

\* --------------------------------------------------------- pure helpers
Max(a, b) == IF a >= b THEN a ELSE b

\* face_recognition.face_distance: Euclidean norm of the difference.  The
\* model keeps the square, which orders distances the same way.
face_distance_sq(a, b) ==
    (a[1] - b[1]) * (a[1] - b[1]) + (a[2] - b[2]) * (a[2] - b[2])

face_distances(encs, enc) ==
    [i \in 1..Len(encs) |-> face_distance_sq(encs[i], enc)]

\* np.argmin: the first index holding the minimum.
argmin(ds) ==
    CHOOSE i \in 1..Len(ds) :
        \A j \in 1..Len(ds) : ds[i] < ds[j] \/ (ds[i] = ds[j] /\ i <= j)

\* hashlib.md5(f"{name}_{face_encoding.tobytes().hex()[:32]}"): a digest,
\* taken as collision-free, of the label and the leading 16 bytes.
generate_detection_hash(enc, name) == <<name, enc[1]>>

\* Line 287: hash_input.encode() raises UnicodeEncodeError on a name
\* that UTF-8 cannot encode.
Encodable(name) == name # UnencodableName

\* Variant: a distance equal to the threshold still matches.
WithinThresholdInclusive(d) == d <= ThresholdSq

\* Line 231: face_distances[best_match_index] < 0.6.
WithinThreshold(d) == d < ThresholdSq

\* _process_single_face, lines 222-235: the label a face is given.  An
\* index beyond the names list raises IndexError (caught on line 237).
ClassifyFace(encs, names, enc) ==
    IF Len(encs) = 0
    THEN [type |-> "unknown", name |-> "Unknown"]
    ELSE LET ds == face_distances(encs, enc)
             best == argmin(ds)
         IN  IF WithinThreshold(ds[best])
             THEN IF best <= Len(names)
                  THEN [type |-> "known", name |-> names[best]]
                  ELSE [type |-> "error", name |-> ""]
             ELSE [type |-> "unknown", name |-> "Unknown"]

\* The detection dict a face yields when it passes deduplication.
Detection(label, enc) ==
    [type |-> label.type, name |-> label.name,
     detection_hash |-> generate_detection_hash(enc, label.name),
     status |-> IF label.type = "known" THEN "Present" ELSE "Unknown"]

NoCand == [type |-> "none", name |-> "", detection_hash |-> <<"", 0>>,
           status |-> ""]

\* Variant: the elapsed time is compared with nothing but zero.
should_process_frame_eager ==
    (now - last_processing_time) >= 0

\* should_process_frame, lines 131-134.
should_process_frame ==
    (now - last_processing_time) >= processing_interval

\* The registries a worker may be constructed with (app.py 651-653).
Registries ==
    { [encodings |-> <<>>, names |-> <<>>],
      [encodings |-> <<EncBob>>, names |-> <<"Bob">>] }

\* A file of the known-faces directory: <name>.jpg when stamp = 0, else
\* <name>_<stamp>.jpg; enc is the embedding of the face it shows.
FileOf(name, stamp, enc) == [name |-> name, stamp |-> stamp, enc |-> enc]

\* The FaceManager holding the lists r, and the directory it was loaded
\* from: one image per identity.
ManagerOf(r) ==
    [known_face_encodings |-> r.encodings,
     known_face_names |-> r.names,
     known_face_images |->
         { <<r.names[i], r.encodings[i]>> : i \in 1..Len(r.names) }]

DirOf(r) == [i \in 1..Len(r.names) |-> FileOf(r.names[i], 0, r.encodings[i])]

\* encodings.pkl: absent, written whole, or cut short by a failed write.
NoSnapshot == [st |-> "absent", encodings |-> <<>>, names |-> <<>>]
BrokenSnapshot == [st |-> "corrupt", encodings |-> <<>>, names |-> <<>>]
SnapshotOf(encs, names) == [st |-> "ok", encodings |-> encs, names |-> names]

\* ------------------------------------------------------- FaceManager
\* face_recognition.face_encodings found no face in the image.
NoEnc == <<-1, -1>>

\* Names as typed into the dialog, and str.strip() on them.
RawNames == {"", " ", "Al", " Al ", "Bob", "Mary_Ann"}

strip(raw) ==
    CASE raw = " " -> ""
      [] raw = " Al " -> "Al"
      [] OTHER -> raw

\* Lines 187-193: the name the directory scan derives from a file name,
\* the part of the stem before the first "_".
NameFromStem(name) == IF name = "Mary_Ann" THEN "Mary" ELSE name

\* Line 71: filename.startswith(name + "_") or stem == name.
FileMatchesName(f, name) ==
    \/ f.name = name
    \/ (f.name = "Mary_Ann" /\ name = "Mary")

\* The embedding the directory scan computes from the image written for
\* a face with embedding e: the file is a lossy JPEG and is encoded
\* without the BGR-to-RGB conversion, so it is near e, not equal to it.
LoadedEncoding(e) == <<e[1], e[2] + 1>>

Range(seq) == { seq[i] : i \in 1..Len(seq) }

\* self.known_face_images[name] = image.
PutImage(images, name, img) ==
    { p \in images : p[1] # name } \cup { <<name, img>> }

NewManager ==
    [known_face_encodings |-> <<>>, known_face_names |-> <<>>,
     known_face_images |-> {}]

\* _load_known_faces, lines 159-204: every file of the directory, in
\* listing order, that shows a face is appended under the derived name.
RECURSIVE load_known_faces(_, _, _)
load_known_faces(fm, dir, i) ==
    IF i > Len(dir) THEN fm
    ELSE IF dir[i].enc = NoEnc THEN load_known_faces(fm, dir, i + 1)
    ELSE LET name == NameFromStem(dir[i].name)
         IN  load_known_faces(
                 [known_face_encodings |->
                      Append(fm.known_face_encodings, dir[i].enc),
                  known_face_names |-> Append(fm.known_face_names, name),
                  known_face_images |->
                      PutImage(fm.known_face_images, name, dir[i].enc)],
                 dir, i + 1)

\* _find_image_for_name, lines 66-76: the first matching file, if any.
HasImageFor(dir, name) == \E i \in 1..Len(dir) : FileMatchesName(dir[i], name)

find_image_for_name(dir, name) ==
    dir[CHOOSE i \in 1..Len(dir) :
            /\ FileMatchesName(dir[i], name)
            /\ \A j \in 1..(i - 1) : ~FileMatchesName(dir[j], name)]

\* _load_images_for_persistent_encodings, lines 51-64.
RECURSIVE load_images_for_persistent_encodings(_, _, _, _)
load_images_for_persistent_encodings(images, names, dir, i) ==
    IF i > Len(names) THEN images
    ELSE load_images_for_persistent_encodings(
             IF HasImageFor(dir, names[i])
             THEN PutImage(images, names[i],
                           find_image_for_name(dir, names[i]).enc)
             ELSE images,
             names, dir, i + 1)

\* _load_persistent_encodings, lines 34-49: a readable encodings.pkl
\* replaces both lists; an absent one changes nothing; an unreadable one
\* raises in pickle.load, which is caught before anything is assigned.
load_persistent_encodings(fm, dir, pkl) ==
    IF pkl.st = "ok"
    THEN [known_face_encodings |-> pkl.encodings,
          known_face_names |-> pkl.names,
          known_face_images |->
              load_images_for_persistent_encodings(
                  fm.known_face_images, pkl.names, dir, 1)]
    ELSE fm

\* FaceManager.__init__, lines 17-32.
Constructed(dir, pkl) ==
    load_persistent_encodings(load_known_faces(NewManager, dir, 1), dir, pkl)

\* Variant: the first entry of every name is kept.
KeptIndices_First(names) ==
    { i \in 1..Len(names) :
        \A j \in 1..(i - 1) : names[j] # names[i] }

\* _remove_duplicate_encodings, lines 311-334: the last entry of every
\* name is kept, in order; names without an encoding at their index raise
\* IndexError, which is caught before anything is assigned.
KeptIndices(names) ==
    { i \in 1..Len(names) :
        \A j \in (i + 1)..Len(names) : names[j] # names[i] }

RECURSIVE Pick(_, _, _)
Pick(seq, keep, i) ==
    IF i > Len(seq) THEN <<>>
    ELSE (IF i \in keep THEN <<seq[i]>> ELSE <<>>) \o Pick(seq, keep, i + 1)

remove_duplicate_encodings(fm) ==
    IF Len(fm.known_face_names) > Len(fm.known_face_encodings)
    THEN fm
    ELSE LET keep == KeptIndices(fm.known_face_names)
         IN  [known_face_encodings |-> Pick(fm.known_face_encodings, keep, 1),
              known_face_names |-> Pick(fm.known_face_names, keep, 1),
              known_face_images |->
                  { p \in fm.known_face_images :
                      p[1] \in Range(fm.known_face_names) }]

\* Index-aligned lists of up to MaxLen entries, with repeated names next
\* to each other and apart, and stored images for names in the list and
\* for a name that is not.
DedupNames == {"Al", "Bob"}
DedupEncodings == {EncBob, EncBobTilt}

DedupInputs ==
    { [known_face_encodings |-> e, known_face_names |-> n,
       known_face_images |-> img] :
        e \in UNION { [1..k -> DedupEncodings] : k \in 0..MaxLen },
        n \in UNION { [1..k -> DedupNames] : k \in 0..MaxLen },
        img \in SUBSET { <<"Al", EncAl>>, <<"Zed", EncFar>> } }

\* FaceManager.refresh_faces, lines 279-293.
refresh_faces(dir, pkl) ==
    remove_duplicate_encodings(Constructed(dir, pkl))

\* cv2.imwrite(image_path, face_crop): a file of the same name is
\* replaced, a new one is added to the listing.
WriteFile(dir, f) ==
    IF \E i \in 1..Len(dir) : dir[i].name = f.name /\ dir[i].stamp = f.stamp
    THEN [i \in 1..Len(dir) |->
             IF dir[i].name = f.name /\ dir[i].stamp = f.stamp
             THEN f ELSE dir[i]]
    ELSE Append(dir, f)

\* What register_unknown_face answers (lines 102-157) for the name typed,
\* the embedding found in the crop and the outcome of cv2.imwrite.
RegisterAccepts(fm, raw, enc, written) ==
    /\ raw # "" /\ strip(raw) # ""
    /\ strip(raw) \notin Range(fm.known_face_names)
    /\ enc # NoEnc
    /\ written

\* Variant: the new identity is put in front of the others.
Registered_Front(fm, name, enc) ==
    [known_face_encodings |-> <<enc>> \o fm.known_face_encodings,
     known_face_names |-> <<name>> \o fm.known_face_names,
     known_face_images |-> PutImage(fm.known_face_images, name, enc)]

\* Variant: the embedding is appended and the name is not.
Registered_EncodingOnly(fm, name, enc) ==
    [known_face_encodings |-> Append(fm.known_face_encodings, enc),
     known_face_names |-> fm.known_face_names,
     known_face_images |-> PutImage(fm.known_face_images, name, enc)]

\* Lines 145-147: the new identity in memory.
Registered(fm, name, enc) ==
    [known_face_encodings |-> Append(fm.known_face_encodings, enc),
     known_face_names |-> Append(fm.known_face_names, name),
     known_face_images |-> PutImage(fm.known_face_images, name, enc)]

\* _save_persistent_encodings, lines 78-96: the file after the call, for
\* an outcome of "ok", "unopened" (open fails) or "cut" (the dump fails
\* after the file was truncated).
SavedSnapshot(pkl, fm, outcome) ==
    CASE outcome = "ok" ->
             SnapshotOf(fm.known_face_encodings, fm.known_face_names)
      [] outcome = "unopened" -> pkl
      [] OTHER -> BrokenSnapshot

SaveOutcomes == {"ok", "unopened", "cut"}

\* What face_recognition may find in a crop handed to registration.
CropEncodings == {EncAl, EncFar, NoEnc}

\* Contents of the known-faces directory at start-up: empty, one image,
\* two images of one person, an image named with an underscore, an image
\* showing no face.
Directories ==
    { <<>>,
      <<FileOf("Bob", 0, EncBob)>>,
      <<FileOf("Bob", 0, EncBob), FileOf("Bob", 8, EncBobTilt)>>,
      <<FileOf("Mary_Ann", 8, EncAl)>>,
      <<FileOf("Al", 8, NoEnc), FileOf("Bob", 8, EncBob)>> }

\* encodings.pkl at start-up, as an earlier run may have left it.
Snapshots ==
    { NoSnapshot, BrokenSnapshot, SnapshotOf(<<EncBobTilt>>, <<"Bob">>) }

\* ------------------------------------------------------ CameraWorker
\* The CameraWorker object and its thread: pc is the position in run(),
\* capture the state of self.capture ("none", "closed": created but not
\* opened, "open", "released"), frame_count the local of run().
\* set_frame_skip, lines 31-33: self.frame_skip = max(1, skip).
set_frame_skip(skip) == Max(1, skip)

\* No CameraWorker exists (before start_camera, after stop_camera).
CameraOff ==
    [pc |-> "off", running |-> FALSE, capture |-> "none", frame_skip |-> 1,
     frame_count |-> 0]

\* app.py 644-645 and 663: a CameraWorker constructed (lines 20-25),
\* given its frame skip, and started.
CameraStarted(skip) ==
    [pc |-> "open", running |-> FALSE, capture |-> "none",
     frame_skip |-> set_frame_skip(skip), frame_count |-> 0]

\* Variant: the registry's own lists are returned.
ListsReturnedAsAre == {"encodings", "names"}

\* get_face_encodings and get_face_names, lines 303-309: `.copy()`; the
\* lists returned that are the registry's own list objects: none.
ListsReturnedShared == {}

\* process_frame is executing (from its entry to its return).
InProcessFrame == detPc \in {"enter", "face", "add", "emit"}

\* A processing run of the loop is under way: lines 152-159.
InRun == detPc \in {"enter", "face", "add", "emit", "stamp", "del", "clear"}

\* ------------------------------------------------- observation helpers
\* The deduplication key of a detection: the name for a known face, the
\* hash for an unknown one.
KeyOf(d) == IF d.type = "known" THEN <<d.name, -1>> ELSE d.detection_hash

SeenKeys ==
    { <<n, -1>> : n \in session_seen_known } \cup session_seen_unknown_hashes

\* What is recorded about one process_frame call.
NoSummary ==
    [fed |-> {}, em |-> {}, seen0 |-> {}, dirty |-> FALSE, split |-> FALSE,
     checks |-> 0, done |-> FALSE, swapped |-> FALSE]

NoReg == [ok |-> FALSE, raw |-> "", enc |-> NoEnc, written |-> FALSE,
          outcome |-> "none"]
NoLabel == [type |-> "none", name |-> "", enc |-> <<0, 0>>]
NoBatch == [count |-> 0, detections |-> <<>>, total_faces |-> 0]
NoCam == [skip |-> 1, tried |-> <<>>, nodevice |-> FALSE, attempts |-> 0,
          good |-> 0, emitted |-> {}, errors |-> 0, stopped |-> 0,
          misuse |-> FALSE, joined |-> FALSE, late |-> FALSE]

\* emitted, twice: the keys emitted once, and more than once, since the
\*   last step of a reset_session;
\* processedLog: the ids handed to process_frame, in order;
\* superseded: the ids removed from the slot by queue_frame, never handed;
\* lastQueued, runSince: the frame of the latest queue_frame call, and
\*   whether a processing run was under way at or after that call;
\* held: the frame stored while process_frame was executing;
\* inFlight, startedAt, returnedAt: process_frame calls in progress, when
\*   the current one began, when the last one returned;
\* checked: the interval the eligibility check that passed compared with;
\* argGiven, lastArg, setWhileBusy: the latest argument of
\*   set_processing_interval, and whether a frame was pending or being
\*   processed when it was given;
\* callAt, spacing: when the latest process_frame call was made, and the
\*   time between the two latest calls (-1 before the second);
\* label: the classification of the face evaluated last;
\* batch: what the latest process_frame call emitted as detection_result;
\* failed: the frames whose processing raised, reported by
\*   detection_error;
\* kept: the frame stored, after some frame has failed, while no
\*   processing run was under way;
\* updGiven, lastUpd: the lists of the latest update_known_faces call that
\*   has returned;
\* ops, op: the calls of register_unknown_face and refresh_faces so far,
\*   and which of the two the latest was;
\* reg: the latest register_unknown_face call: its answer, the name typed,
\*   the embedding of the crop, how the snapshot write ended;
\* propagate: a registration succeeded or a refresh was made since the
\*   worker was started;
\* volatile: the embedding registered last with a failed snapshot write
\*   and not refreshed since;
\* cam: the current CameraWorker: the frame skip it was configured with,
\*   the devices it tried to open and whether none of them opened, its
\*   capture.read() calls, the successful ones among them, which of these
\*   (counted from 0) were emitted as frame_ready, the camera_error and
\*   'Camera stopped' signals, whether a capture not open was read,
\*   whether stop() has returned, whether a frame was emitted after that;
\* dedupIn: the lists the latest _remove_duplicate_encodings call found;
\* prev, cur: the last two process_frame calls; pairGap, gap: the steps
\*   of reset_session taken between them, and since the latest.
ObsInit ==
    [emitted |-> {}, twice |-> {}, processedLog |-> <<>>, superseded |-> {},
     lastQueued |-> 0, runSince |-> FALSE, held |-> 0,
     inFlight |-> 0, startedAt |-> 0, returnedAt |-> 0, checked |-> 0,
     argGiven |-> FALSE, lastArg |-> 0, setWhileBusy |-> FALSE,
     callAt |-> 0, spacing |-> -1,
     label |-> NoLabel, batch |-> NoBatch, failed |-> {}, kept |-> 0,
     updGiven |-> FALSE, lastUpd |-> NoArg,
     ops |-> 0, op |-> "none", reg |-> NoReg, propagate |-> FALSE,
     volatile |-> NoEnc, cam |-> NoCam, dedupIn |-> NoArg,
     prev |-> NoSummary, cur |-> NoSummary, gap |-> "none",
     pairGap |-> "none"]

\* A step of reset_session was taken: a new deduplication epoch begins, and
\* the step is placed relative to the frames being processed.
ObsResetStep(o, completes) ==
    [o EXCEPT
        !.emitted = {},
        !.twice = {},
        !.cur = IF InProcessFrame
                THEN [@ EXCEPT !.dirty = TRUE,
                                !.split = (@ \/ o.cur.checks > 0)]
                ELSE @,
        !.gap = IF InProcessFrame THEN @
                ELSE IF completes /\ @ = "partial" THEN "complete"
                ELSE "partial"]

\* ---------------------------------------------------------------- Init
Init ==
    /\ running = FALSE
    /\ \E r \in Registries :
          /\ known_face_encodings = r.encodings
          /\ known_face_names = r.names
          /\ face_manager = ManagerOf(r)
          /\ faces_dir = DirOf(r)
    /\ encodings_pkl = NoSnapshot
    /\ camera_worker = CameraStarted(1)
    /\ is_running = TRUE
    /\ shared = ListsReturnedShared
    /\ uiArg = NoArg
    /\ session_seen_known = {}
    /\ session_seen_unknown_hashes = {}
    /\ last_processing_time = 0
    /\ processing_interval = DefaultInterval
    /\ pending_frame = SlotNone
    /\ detPc = "init"
    /\ frame = NoFrame
    /\ faceIdx = 0
    /\ cand = NoCand
    /\ detection_results = <<>>
    /\ uiPc = "idle"
    /\ uiFrame = NoFrame
    /\ now = StartTime
    /\ nextId = 1
    /\ session_records = <<>>
    /\ detection_signals = <<>>
    /\ obs = ObsInit

\* A FaceManager constructed over some directory and snapshot; no worker
\* has been started.
InitRegistry ==
    /\ \E dir \in Directories, pkl \in Snapshots :
          /\ faces_dir = dir
          /\ encodings_pkl = pkl
          /\ face_manager = Constructed(dir, pkl)
    /\ camera_worker = CameraOff
    /\ is_running = FALSE
    /\ shared = {}
    /\ running = FALSE
    /\ known_face_encodings = <<>>
    /\ known_face_names = <<>>
    /\ session_seen_known = {}
    /\ session_seen_unknown_hashes = {}
    /\ last_processing_time = 0
    /\ processing_interval = DefaultInterval
    /\ pending_frame = SlotNone
    /\ detPc = "init"
    /\ frame = NoFrame
    /\ faceIdx = 0
    /\ cand = NoCand
    /\ detection_results = <<>>
    /\ uiPc = "idle"
    /\ uiFrame = NoFrame
    /\ uiArg = NoArg
    /\ now = StartTime
    /\ nextId = 1
    /\ session_records = <<>>
    /\ detection_signals = <<>>
    /\ obs = ObsInit

sessionVars == << session_seen_known, session_seen_unknown_hashes >>
registryVars == << known_face_encodings, known_face_names >>
fmVars == << face_manager, faces_dir, encodings_pkl >>
lifeVars == << camera_worker, is_running >>
appVars == << session_records, detection_signals >>
detLocals == << frame, faceIdx, cand, detection_results >>
uiVars == << uiPc, uiFrame, nextId >>

\* ------------------------------------------ detection thread: run()
\* Lines 142-145: the thread enters run().
Run_Start ==
    /\ detPc = "init"
    /\ running' = TRUE
    /\ detPc' = "poll"
    /\ UNCHANGED << appVars, lifeVars, shared,
                    registryVars, fmVars, uiArg,
                    sessionVars, last_processing_time,
                    processing_interval, pending_frame, detLocals, uiVars,
                    now, obs >>

\* Variant: the poll is driven by a timer and also fires during a run.
PollReadyAnytime == detPc \in {"poll", "face"}

\* The loop reaches its poll only between two runs (lines 147-164).
PollReady == detPc = "poll"

\* Lines 147 and 150, first conjunct: `self.pending_frame is not None`.
\* Reading a deleted attribute raises AttributeError (line 166).  With the
\* slot empty the loop sleeps and polls again: no change of state.
Run_Poll ==
    /\ PollReady
    /\ running
    /\ pending_frame.st # "none"
    /\ detPc' = IF pending_frame.st = "deleted" THEN "error" ELSE "check"
    /\ UNCHANGED << appVars, lifeVars, shared,
                    running, registryVars, fmVars, uiArg,
                    sessionVars, last_processing_time,
                    processing_interval, pending_frame, detLocals, uiVars,
                    now, obs >>

\* Line 150, second conjunct: should_process_frame().
Run_Check ==
    /\ detPc = "check"
    /\ detPc' = IF should_process_frame THEN "call" ELSE "poll"
    /\ obs' = [obs EXCEPT
          !.checked = IF should_process_frame THEN processing_interval ELSE 0]
    /\ UNCHANGED << appVars, lifeVars, shared,
                    running, registryVars, fmVars, uiArg,
                    sessionVars, last_processing_time,
                    processing_interval, pending_frame, detLocals, uiVars,
                    now >>

\* Line 152: the argument self.pending_frame is read and process_frame is
\* called with it.
Run_Call ==
    /\ detPc = "call"
    /\ IF pending_frame.st = "frame"
       THEN /\ frame' = [id |-> pending_frame.id, faces |-> pending_frame.faces]
            /\ detPc' = "enter"
            /\ obs' = [obs EXCEPT
                  !.processedLog = Append(@, pending_frame.id),
                  !.held = IF @ = pending_frame.id THEN 0 ELSE @,
                  !.kept = IF @ = pending_frame.id THEN 0 ELSE @,
                  !.inFlight = @ + 1,
                  !.startedAt = now,
                  !.spacing = IF Len(obs.processedLog) = 0 THEN -1
                              ELSE now - obs.callAt,
                  !.callAt = now,
                  !.runSince = TRUE,
                  !.prev = obs.cur,
                  !.cur = [NoSummary EXCEPT
                              !.seen0 = SeenKeys,
                              !.swapped = (uiPc \in {"upd_enc", "upd_names"})],
                  !.batch = NoBatch,
                  !.pairGap = obs.gap,
                  !.gap = "none"]
       ELSE /\ detPc' = "error"
            /\ UNCHANGED << frame, obs >>
    /\ UNCHANGED << appVars, lifeVars, shared,
                    running, registryVars, fmVars, uiArg,
                    sessionVars, last_processing_time,
                    processing_interval, pending_frame, faceIdx, cand,
                    detection_results, uiVars, now >>

\* Variant: process_frame does not look at the running flag.
Process_Enter_Unchecked ==
    /\ detPc = "enter"
    /\ detPc' = "face"
    /\ faceIdx' = 1
    /\ detection_results' = <<>>
    /\ obs' = [obs EXCEPT !.checked = 0]
    /\ UNCHANGED << appVars, lifeVars, shared,
                    running, registryVars, fmVars, uiArg,
                    sessionVars, last_processing_time,
                    processing_interval, pending_frame, frame, cand, uiVars,
                    now >>

\* Lines 173-190: process_frame returns at once on a stopped worker;
\* otherwise the faces of the frame are located and encoded.
Process_Enter ==
    /\ detPc = "enter"
    /\ IF running
       THEN /\ detPc' = "face"
            /\ faceIdx' = 1
            /\ detection_results' = <<>>
            /\ obs' = [obs EXCEPT !.checked = 0]
            /\ frame' = frame
       ELSE /\ detPc' = "stamp"
            /\ obs' = [obs EXCEPT !.inFlight = @ - 1, !.startedAt = 0,
                                   !.returnedAt = now, !.checked = 0,
                                   !.cur.done = TRUE]
            /\ frame' = NoFrame
            /\ UNCHANGED << faceIdx, detection_results >>
    /\ UNCHANGED << appVars, lifeVars, shared,
                    running, registryVars, fmVars, uiArg,
                    sessionVars, last_processing_time,
                    processing_interval, pending_frame, cand, uiVars, now >>

\* Variant: the exception leaves process_frame and run(); the thread ends.
Process_Raise_Uncaught ==
    /\ detPc = "enter"
    /\ running
    /\ detPc' = "dead"
    /\ frame' = NoFrame
    /\ obs' = [obs EXCEPT !.inFlight = @ - 1, !.startedAt = 0,
                           !.returnedAt = now, !.checked = 0,
                           !.cur.done = TRUE]
    /\ UNCHANGED << appVars, lifeVars, shared,
                    running, registryVars, fmVars, uiArg, sessionVars,
                    last_processing_time, processing_interval, pending_frame,
                    faceIdx, cand, detection_results, uiVars, now >>

\* Lines 176-190 raise (conversion, face location or encoding fails on
\* this frame); lines 210-212 report it through detection_error and
\* process_frame returns.
Process_Raise ==
    /\ detPc = "enter"
    /\ running
    /\ detPc' = "stamp"
    /\ frame' = NoFrame
    /\ obs' = [obs EXCEPT !.inFlight = @ - 1, !.startedAt = 0,
                           !.returnedAt = now, !.checked = 0,
                           !.cur.done = TRUE,
                           !.failed = @ \cup {frame.id}]
    /\ UNCHANGED << appVars, lifeVars, shared,
                    running, registryVars, fmVars, uiArg, sessionVars,
                    last_processing_time, processing_interval, pending_frame,
                    faceIdx, cand, detection_results, uiVars, now >>

\* Variant: the test of a known name is left out.
AlreadySeenUnknownOnly(d) ==
    /\ d.type # "known"
    /\ d.detection_hash \in session_seen_unknown_hashes

\* Lines 244 and 268: the deduplication test of a classified face.
AlreadySeen(d) ==
    IF d.type = "known"
    THEN d.name \in session_seen_known
    ELSE d.detection_hash \in session_seen_unknown_hashes

\* Lines 194-197 with _process_single_face (214-235) up to the test of
\* _process_known_face (244) or _process_unknown_face (265-268): the next
\* face is classified and tested against the session.
Process_Face ==
    /\ detPc = "face"
    /\ IF faceIdx > Len(frame.faces)
       THEN /\ detPc' = "emit"
            /\ UNCHANGED << faceIdx, cand, obs >>
       ELSE LET enc == frame.faces[faceIdx]
                label == ClassifyFace(known_face_encodings,
                                      known_face_names, enc)
                d == Detection(label, enc)
                seen == [type |-> label.type, name |-> label.name,
                         enc |-> enc]
            IN  IF label.type = "error"
                THEN \* lines 237-239: the face yields no result
                     /\ faceIdx' = faceIdx + 1
                     /\ detPc' = "face"
                     /\ cand' = cand
                     /\ obs' = [obs EXCEPT !.label = seen]
                ELSE /\ obs' = [obs EXCEPT !.cur.fed = @ \cup {KeyOf(d)},
                                            !.cur.checks = 1,
                                            !.label = seen]
                     /\ IF AlreadySeen(d)
                        THEN /\ faceIdx' = faceIdx + 1
                             /\ detPc' = "face"
                             /\ cand' = cand
                        ELSE /\ cand' = d
                             /\ detPc' = "add"
                             /\ faceIdx' = faceIdx
    /\ UNCHANGED << appVars, lifeVars, shared,
                    running, registryVars, fmVars, uiArg,
                    sessionVars, last_processing_time,
                    processing_interval, pending_frame, frame,
                    detection_results, uiVars, now >>

\* Lines 248-260 and 272-281 with 196-197: the face is marked as seen and
\* its detection is appended to detection_results.  A known name is
\* marked (line 248) before its hash is generated (line 251): when that
\* raises, the exception is caught on line 237 and the face yields no
\* result.
Process_Add ==
    /\ detPc = "add"
    /\ LET raises == cand.type = "known" /\ ~Encodable(cand.name)
       IN  /\ IF cand.type = "known"
              THEN /\ session_seen_known' =
                         session_seen_known \cup {cand.name}
                   /\ UNCHANGED session_seen_unknown_hashes
              ELSE /\ session_seen_unknown_hashes' =
                         session_seen_unknown_hashes
                             \cup {cand.detection_hash}
                   /\ UNCHANGED session_seen_known
           /\ detection_results' =
                 IF raises THEN detection_results
                 ELSE Append(detection_results, cand)
           /\ obs' = [obs EXCEPT
                 !.cur.em = IF raises THEN @ ELSE @ \cup {KeyOf(cand)}]
    /\ cand' = NoCand
    /\ faceIdx' = faceIdx + 1
    /\ detPc' = "face"
    /\ UNCHANGED << appVars, lifeVars, shared,
                    running, registryVars, fmVars, uiArg,
                    last_processing_time,
                    processing_interval, pending_frame, frame, uiVars, now >>

\* Variant: a batch is emitted for every processed frame.
ShouldEmitAlways(results) == TRUE

\* Line 200: `if detection_results`.
ShouldEmit(results) == Len(results) > 0

\* Lines 200-205: one batch with the new detections, if there are any;
\* process_frame returns.
Process_Emit ==
    /\ detPc = "emit"
    /\ detPc' = "stamp"
    /\ LET n == Len(detection_results)
           keys == { KeyOf(detection_results[i]) : i \in 1..n }
           again == { k \in keys :
                        \E i, j \in 1..n :
                            /\ i < j
                            /\ KeyOf(detection_results[i]) = k
                            /\ KeyOf(detection_results[j]) = k }
       IN  obs' = [obs EXCEPT
                !.twice = @ \cup (keys \cap obs.emitted) \cup again,
                !.emitted = @ \cup keys,
                !.inFlight = @ - 1,
                !.startedAt = 0,
                !.returnedAt = now,
                !.cur.done = TRUE,
                !.label = NoLabel,
                !.batch = IF ShouldEmit(detection_results)
                          THEN [count |-> 1,
                                detections |-> detection_results,
                                total_faces |-> Len(frame.faces)]
                          ELSE NoBatch]
    \* the signal is queued for the UI thread, which owns the receiver
    /\ detection_signals' =
          IF ShouldEmit(detection_results)
          THEN Append(detection_signals, detection_results)
          ELSE detection_signals
    \* the locals of process_frame die with its return
    /\ frame' = NoFrame
    /\ faceIdx' = 0
    /\ detection_results' = <<>>
    /\ UNCHANGED << session_records, lifeVars, shared,
                    running, registryVars, fmVars, uiArg,
                    sessionVars, last_processing_time,
                    processing_interval, pending_frame, cand, uiVars, now >>

\* Variant: the completion time is not recorded.
Run_Stamp_Never ==
    /\ detPc = "stamp"
    /\ detPc' = "del"
    /\ UNCHANGED << appVars, lifeVars, shared,
                    running, registryVars, fmVars, uiArg,
                    sessionVars, last_processing_time,
                    processing_interval, pending_frame, detLocals, uiVars,
                    now, obs >>

\* Line 155: the completion time is stamped.
Run_Stamp ==
    /\ detPc = "stamp"
    /\ last_processing_time' = now
    /\ detPc' = "del"
    /\ UNCHANGED << appVars, lifeVars, shared,
                    running, registryVars, fmVars, uiArg,
                    sessionVars, processing_interval,
                    pending_frame, detLocals, uiVars, now, obs >>

\* Variant: the processed frame is left in the slot.
Run_Del_Skip ==
    /\ detPc = "del"
    /\ detPc' = "poll"
    /\ obs' = [obs EXCEPT !.returnedAt = 0]
    /\ UNCHANGED << appVars, lifeVars, shared,
                    running, registryVars, fmVars, uiArg,
                    sessionVars, last_processing_time,
                    processing_interval, pending_frame, detLocals, uiVars,
                    now >>

\* Line 158: `del self.pending_frame` removes the attribute, whatever
\* frame it holds by now; on an attribute already removed it raises.
Run_Del ==
    /\ detPc = "del"
    /\ IF pending_frame.st = "deleted"
       THEN /\ detPc' = "error"
            /\ UNCHANGED pending_frame
       ELSE /\ pending_frame' = SlotDeleted
            /\ detPc' = "clear"
    /\ obs' = [obs EXCEPT !.returnedAt = 0]
    /\ UNCHANGED << appVars, lifeVars, shared,
                    running, registryVars, fmVars, uiArg,
                    sessionVars, last_processing_time,
                    processing_interval, detLocals, uiVars, now >>

\* Line 159: self.pending_frame = None.
Run_Clear ==
    /\ detPc = "clear"
    /\ pending_frame' = SlotNone
    /\ detPc' = "poll"
    /\ UNCHANGED << appVars, lifeVars, shared,
                    running, registryVars, fmVars, uiArg,
                    sessionVars, last_processing_time,
                    processing_interval, detLocals, uiVars, now, obs >>

\* Lines 166-169: the loop's handler reports the error, sleeps and polls
\* again.
Run_LoopError ==
    /\ detPc = "error"
    /\ detPc' = "poll"
    /\ UNCHANGED << appVars, lifeVars, shared,
                    running, registryVars, fmVars, uiArg,
                    sessionVars, last_processing_time,
                    processing_interval, pending_frame, detLocals, uiVars,
                    now, obs >>

\* --------------------------------------------------------- UI thread
\* app.py 734-735: a camera frame is handed to queue_frame of a running
\* worker.  Every frame the camera emits is a fresh copy (line 64).
OnFrameReady(scene) ==
    /\ uiPc = "idle"
    /\ running
    /\ nextId <= MaxFrames
    /\ uiFrame' = [id |-> nextId, faces |-> scene]
    /\ nextId' = nextId + 1
    /\ uiPc' = "q_test"
    /\ obs' = [obs EXCEPT !.lastQueued = nextId, !.runSince = InRun]
    /\ UNCHANGED << appVars, lifeVars, shared,
                    running, registryVars, fmVars, uiArg,
                    sessionVars, last_processing_time,
                    processing_interval, pending_frame, detPc, detLocals,
                    now >>

\* Variant: a frame already waiting is kept and the new one is dropped.
Queue_Test_KeepOld ==
    /\ uiPc = "q_test"
    /\ uiPc' = IF pending_frame.st = "none" THEN "q_store" ELSE "idle"
    /\ uiFrame' = IF pending_frame.st = "none" THEN uiFrame ELSE NoFrame
    /\ UNCHANGED << appVars, lifeVars, shared,
                    running, registryVars, fmVars, uiArg,
                    sessionVars, last_processing_time,
                    processing_interval, pending_frame, detPc, detLocals,
                    nextId, now, obs >>

\* Line 121: `if self.pending_frame is not None`.  On a removed attribute
\* the read raises; queue_frame logs it (128-129) and returns.
Queue_Test ==
    /\ uiPc = "q_test"
    /\ uiPc' = CASE pending_frame.st = "deleted" -> "idle"
                 [] pending_frame.st = "none" -> "q_store"
                 [] OTHER -> "q_del"
    /\ uiFrame' = IF pending_frame.st = "deleted" THEN NoFrame ELSE uiFrame
    /\ UNCHANGED << appVars, lifeVars, shared,
                    running, registryVars, fmVars, uiArg,
                    sessionVars, last_processing_time,
                    processing_interval, pending_frame, detPc, detLocals,
                    nextId, now, obs >>

\* Line 122: `del self.pending_frame`; raises, and the new frame is
\* dropped, when the detection thread removed the attribute first.
Queue_Del ==
    /\ uiPc = "q_del"
    /\ IF pending_frame.st = "deleted"
       THEN /\ uiPc' = "idle"
            /\ uiFrame' = NoFrame
            /\ UNCHANGED << pending_frame, obs >>
       ELSE /\ pending_frame' = SlotDeleted
            /\ uiPc' = "q_store"
            /\ uiFrame' = uiFrame
            /\ obs' = [obs EXCEPT
                  !.superseded =
                      IF pending_frame.st = "frame"
                         /\ \A i \in 1..Len(obs.processedLog) :
                               obs.processedLog[i] # pending_frame.id
                      THEN @ \cup {pending_frame.id} ELSE @,
                  !.held = IF @ = pending_frame.id THEN 0 ELSE @,
                  !.kept = IF @ = pending_frame.id THEN 0 ELSE @]
    /\ UNCHANGED << appVars, lifeVars, shared,
                    running, registryVars, fmVars, uiArg,
                    sessionVars, last_processing_time,
                    processing_interval, detPc, detLocals, nextId, now >>

\* Line 125: self.pending_frame = frame.copy().
Queue_Store ==
    /\ uiPc = "q_store"
    /\ pending_frame' = SlotOf(uiFrame)
    /\ uiPc' = "idle"
    /\ uiFrame' = NoFrame
    /\ obs' = [obs EXCEPT
          !.held = IF InProcessFrame THEN uiFrame.id ELSE 0,
          !.kept = IF ~InRun /\ obs.failed # {} THEN uiFrame.id ELSE 0]
    /\ UNCHANGED << appVars, lifeVars, shared,
                    running, registryVars, fmVars, uiArg,
                    sessionVars, last_processing_time,
                    processing_interval, detPc, detLocals, nextId, now >>

\* AttendanceApp.reset_session, app.py 902-906: self.session_records is
\* cleared and the worker's reset_session is called; its line 138:
\* self.session_seen_known.clear().
Reset_ClearKnown ==
    /\ uiPc = "idle"
    /\ session_records' = <<>>
    /\ session_seen_known' = {}
    /\ uiPc' = "reset_mid"
    /\ obs' = ObsResetStep(obs, FALSE)
    /\ UNCHANGED << detection_signals, lifeVars, shared,
                    running, registryVars, fmVars, uiArg,
                    session_seen_unknown_hashes,
                    last_processing_time, processing_interval, pending_frame,
                    detPc, detLocals, uiFrame, nextId, now >>

\* reset_session, line 139: self.session_seen_unknown_hashes.clear().
Reset_ClearUnknown ==
    /\ uiPc = "reset_mid"
    /\ session_seen_unknown_hashes' = {}
    /\ uiPc' = "idle"
    /\ obs' = ObsResetStep(obs, TRUE)
    /\ UNCHANGED << appVars, lifeVars, shared,
                    running, registryVars, fmVars, uiArg,
                    session_seen_known,
                    last_processing_time, processing_interval, pending_frame,
                    detPc, detLocals, uiFrame, nextId, now >>

\* Variant: the argument is stored as given.
ClampNone(v) == v

\* Line 114: max(0.5, interval).
ClampInterval(v) == Max(MinInterval, v)

\* set_processing_interval, lines 112-115.
SetProcessingInterval(v) ==
    /\ uiPc = "idle"
    /\ processing_interval' = ClampInterval(v)
    /\ obs' = [obs EXCEPT
          !.argGiven = TRUE,
          !.lastArg = v,
          !.setWhileBusy = (InRun \/ pending_frame.st = "frame")]
    /\ UNCHANGED << appVars, lifeVars, shared,
                    running, registryVars, fmVars, uiArg,
                    sessionVars, last_processing_time,
                    pending_frame, detPc, detLocals, uiVars, now >>

\* A step of update_known_faces was taken while process_frame executes.
ObsSwapStep(o) ==
    [o EXCEPT !.cur.swapped = (@ \/ InProcessFrame)]

\* update_known_faces(encodings, names) is called (line 103).
UpdateKnownFaces(r) ==
    /\ uiPc = "idle"
    /\ uiArg' = r
    /\ uiPc' = "upd_enc"
    /\ UNCHANGED << appVars, lifeVars, shared,
                    running, registryVars, fmVars, sessionVars,
                    last_processing_time, processing_interval, pending_frame,
                    detPc, detLocals, uiFrame, nextId, now, obs >>

\* Variant: the encodings are left as they were.
Update_Encodings_Keep ==
    /\ uiPc = "upd_enc"
    /\ uiPc' = "upd_names"
    /\ obs' = ObsSwapStep(obs)
    /\ UNCHANGED << appVars, lifeVars, shared,
                    running, registryVars, fmVars, uiArg, sessionVars,
                    last_processing_time, processing_interval, pending_frame,
                    detPc, detLocals, uiFrame, nextId, now >>

\* Line 106: self.known_face_encodings = encodings.copy().
Update_Encodings ==
    /\ uiPc = "upd_enc"
    /\ known_face_encodings' = uiArg.encodings
    /\ shared' = shared \ {"encodings"}
    /\ uiPc' = "upd_names"
    /\ obs' = ObsSwapStep(obs)
    /\ UNCHANGED << appVars, lifeVars,
                    running, known_face_names, fmVars, uiArg, sessionVars,
                    last_processing_time, processing_interval, pending_frame,
                    detPc, detLocals, uiFrame, nextId, now >>

\* Variant: the names are left as they were.
Update_Names_Keep ==
    /\ uiPc = "upd_names"
    /\ uiPc' = "idle"
    /\ uiArg' = NoArg
    /\ obs' = [ObsSwapStep(obs) EXCEPT !.updGiven = TRUE, !.lastUpd = uiArg]
    /\ UNCHANGED << appVars, lifeVars, shared,
                    running, registryVars, fmVars, sessionVars,
                    last_processing_time, processing_interval, pending_frame,
                    detPc, detLocals, uiFrame, nextId, now >>

\* Line 107: self.known_face_names = names.copy(); the call returns.
Update_Names ==
    /\ uiPc = "upd_names"
    /\ known_face_names' = uiArg.names
    /\ shared' = shared \ {"names"}
    /\ uiPc' = "idle"
    /\ uiArg' = NoArg
    /\ obs' = [ObsSwapStep(obs) EXCEPT !.updGiven = TRUE, !.lastUpd = uiArg]
    /\ UNCHANGED << appVars, lifeVars,
                    running, known_face_encodings, fmVars, sessionVars,
                    last_processing_time, processing_interval, pending_frame,
                    detPc, detLocals, uiFrame, nextId, now >>

\* ------------------------------------------------- the face registry
\* A list of the worker after a list object of the registry was changed
\* in place to `new`: changed with it when the worker holds that very
\* object, else as it was.
SeenThrough(which, own, new) == IF which \in shared THEN new ELSE own

\* The worker's lists after the registry's list objects were changed in
\* place to those of fm.
WorkerSees(fm) ==
    /\ known_face_encodings' =
          SeenThrough("encodings", known_face_encodings,
                      fm.known_face_encodings)
    /\ known_face_names' =
          SeenThrough("names", known_face_names, fm.known_face_names)

\* Variant: the snapshot is rewritten before the name is validated.
register_unknown_face_SaveFirst(raw, enc, written, outcome) ==
    LET ok == RegisterAccepts(face_manager, raw, enc, written)
        fm == Registered(face_manager, strip(raw), enc)
    IN  /\ obs.ops < MaxOps
        /\ WorkerSees(IF ok THEN fm ELSE face_manager)
        /\ face_manager' = IF ok THEN fm ELSE face_manager
        /\ faces_dir' = IF ok
                        THEN WriteFile(faces_dir,
                                 FileOf(strip(raw), now, LoadedEncoding(enc)))
                        ELSE faces_dir
        /\ encodings_pkl' = SavedSnapshot(encodings_pkl,
                                 IF ok THEN fm ELSE face_manager, outcome)
        /\ obs' = [obs EXCEPT
              !.ops = @ + 1,
              !.op = "register",
              !.reg = [ok |-> ok, raw |-> raw, enc |-> enc,
                       written |-> written, outcome |-> outcome],
              !.propagate = (@ \/ ok),
              !.volatile = IF ok
                           THEN (IF outcome = "ok" THEN NoEnc ELSE enc)
                           ELSE @]

\* FaceManager.register_unknown_face, lines 98-157.
register_unknown_face(raw, enc, written, outcome) ==
    LET ok == RegisterAccepts(face_manager, raw, enc, written)
        fm == Registered(face_manager, strip(raw), enc)
    IN  /\ obs.ops < MaxOps
        /\ IF ok
           THEN /\ faces_dir' = WriteFile(faces_dir,
                                    FileOf(strip(raw), now, LoadedEncoding(enc)))
                /\ face_manager' = fm
                /\ encodings_pkl' = SavedSnapshot(encodings_pkl, fm, outcome)
                \* lines 145-146 append to the list objects in place
                /\ WorkerSees(fm)
           ELSE UNCHANGED << fmVars, registryVars >>
        /\ obs' = [obs EXCEPT
              !.ops = @ + 1,
              !.op = "register",
              !.reg = [ok |-> ok, raw |-> raw, enc |-> enc,
                       written |-> written,
                       outcome |-> IF ok THEN outcome ELSE "none"],
              !.propagate = (@ \/ ok),
              !.volatile = IF ok
                           THEN (IF outcome = "ok" THEN NoEnc ELSE enc)
                           ELSE @]

\* register_unknown_face called on a FaceManager no worker is fed from.
RegisterUnknownFace(raw, enc, written, outcome) ==
    /\ uiPc = "idle"
    /\ register_unknown_face(raw, enc, written, outcome)
    /\ UNCHANGED << appVars, lifeVars, shared,
                    running, uiArg, sessionVars,
                    last_processing_time, processing_interval, pending_frame,
                    detPc, detLocals, uiVars, now >>

\* FaceManager.refresh_faces, lines 279-293.
RefreshFaces ==
    /\ uiPc = "idle"
    /\ obs.ops < MaxOps
    /\ face_manager' = refresh_faces(faces_dir, encodings_pkl)
    \* lines 282-287 clear and refill the list objects in place; lines
    \* 41-42 and 329-330 then bind the attributes to new lists
    /\ WorkerSees(load_known_faces(NewManager, faces_dir, 1))
    /\ shared' = {}
    /\ obs' = [obs EXCEPT !.ops = @ + 1, !.op = "refresh",
                           !.propagate = TRUE, !.volatile = NoEnc]
    /\ UNCHANGED << appVars, lifeVars,
                    running, faces_dir, encodings_pkl, uiArg,
                    sessionVars, last_processing_time, processing_interval,
                    pending_frame, detPc, detLocals, uiVars, now >>

\* Variant: the lists are handed to the worker whether or not its thread
\* has set running.
WorkerIsRunningOrStarted == TRUE

\* app.py 466 and 1012: `self.detection_worker and
\* self.detection_worker.running`.
WorkerIsRunning == running

\* A record of session_records (app.py 479-484 and 784-789).
Record(name, status) == [Name |-> name, Status |-> status]

\* app.py 440-484, handle_register_unknown: on success the lists of the
\* registry are copied and handed to a running worker, and a 'Present'
\* record of the name is appended to session_records (no other slot of
\* the UI thread runs before the handler returns, so the record is
\* appended here).
HandleRegisterUnknown(raw, enc, written, outcome) ==
    /\ uiPc = "idle"
    /\ register_unknown_face(raw, enc, written, outcome)
    /\ IF obs'.reg.ok /\ WorkerIsRunning
       THEN /\ uiArg' = [encodings |-> face_manager'.known_face_encodings,
                         names |-> face_manager'.known_face_names]
            /\ uiPc' = "upd_enc"
       ELSE UNCHANGED << uiArg, uiPc >>
    /\ session_records' =
          IF obs'.reg.ok
          THEN Append(session_records, Record(strip(raw), "Present"))
          ELSE session_records
    /\ UNCHANGED << detection_signals, lifeVars, shared,
                    running, sessionVars,
                    last_processing_time, processing_interval, pending_frame,
                    detPc, detLocals, uiFrame, nextId, now >>

\* app.py 1006-1015, refresh_faces: the registry is reloaded and its
\* lists are handed to a running worker.
AppRefreshFaces ==
    /\ uiPc = "idle"
    /\ obs.ops < MaxOps
    /\ face_manager' = refresh_faces(faces_dir, encodings_pkl)
    \* lines 282-287 clear and refill the list objects in place; lines
    \* 41-42 and 329-330 then bind the attributes to new lists
    /\ WorkerSees(load_known_faces(NewManager, faces_dir, 1))
    /\ shared' = {}
    /\ obs' = [obs EXCEPT !.ops = @ + 1, !.op = "refresh",
                           !.propagate = TRUE, !.volatile = NoEnc]
    /\ IF WorkerIsRunning
       THEN /\ uiArg' = [encodings |-> face_manager'.known_face_encodings,
                         names |-> face_manager'.known_face_names]
            /\ uiPc' = "upd_enc"
       ELSE UNCHANGED << uiArg, uiPc >>
    /\ UNCHANGED << appVars, lifeVars,
                    running, faces_dir, encodings_pkl,
                    sessionVars, last_processing_time, processing_interval,
                    pending_frame, detPc, detLocals, uiFrame, nextId, now >>

\* A FaceManager whose lists are about to be de-duplicated.
InitDedup ==
    /\ \E fm \in DedupInputs :
          /\ Len(fm.known_face_encodings) = Len(fm.known_face_names)
          /\ face_manager = fm
    /\ faces_dir = <<>>
    /\ encodings_pkl = NoSnapshot
    /\ camera_worker = CameraOff
    /\ is_running = FALSE
    /\ shared = {}
    /\ running = FALSE
    /\ known_face_encodings = <<>>
    /\ known_face_names = <<>>
    /\ session_seen_known = {}
    /\ session_seen_unknown_hashes = {}
    /\ last_processing_time = 0
    /\ processing_interval = DefaultInterval
    /\ pending_frame = SlotNone
    /\ detPc = "off"
    /\ frame = NoFrame
    /\ faceIdx = 0
    /\ cand = NoCand
    /\ detection_results = <<>>
    /\ uiPc = "idle"
    /\ uiFrame = NoFrame
    /\ uiArg = NoArg
    /\ now = StartTime
    /\ nextId = 1
    /\ session_records = <<>>
    /\ detection_signals = <<>>
    /\ obs = ObsInit

\* _remove_duplicate_encodings, lines 311-334, called on the FaceManager.
RemoveDuplicateEncodings ==
    /\ uiPc = "idle"
    /\ obs.ops < MaxOps
    /\ face_manager' = remove_duplicate_encodings(face_manager)
    /\ obs' = [obs EXCEPT
          !.ops = @ + 1,
          !.op = "dedup",
          !.dedupIn = [encodings |-> face_manager.known_face_encodings,
                       names |-> face_manager.known_face_names]]
    /\ UNCHANGED << appVars, lifeVars, shared, running, registryVars, faces_dir,
                    encodings_pkl, uiArg, sessionVars, last_processing_time,
                    processing_interval, pending_frame, detPc, detLocals,
                    uiVars, now >>

\* The records _process_detection appends for the detections of a batch.
RECURSIVE RecordsOf(_, _)
RecordsOf(detections, i) ==
    IF i > Len(detections) THEN <<>>
    ELSE <<Record(detections[i].name, detections[i].status)>>
             \o RecordsOf(detections, i + 1)

\* on_detection_result and _process_detection, app.py 740-789: the oldest
\* queued detection_result is delivered; every detection of the batch is
\* appended to session_records.
OnDetectionResult ==
    /\ uiPc = "idle"
    /\ detection_signals # <<>>
    /\ session_records' =
          session_records \o RecordsOf(Head(detection_signals), 1)
    /\ detection_signals' = Tail(detection_signals)
    /\ UNCHANGED << lifeVars, shared, running, registryVars, fmVars, uiArg,
                    sessionVars, last_processing_time, processing_interval,
                    pending_frame, detPc, detLocals, uiVars, now, obs >>

\* An Unknown detection of this session was delivered: its thumbnail
\* offers the registration (app.py 427).
UnknownShown ==
    \E i \in 1..Len(session_records) : session_records[i].Status = "Unknown"

\* The registration requested from the thumbnail of an Unknown detection.
RegisterFromThumbnail(raw, enc, outcome) ==
    /\ UnknownShown
    /\ HandleRegisterUnknown(raw, enc, TRUE, outcome)

\* ------------------------------------------- camera thread: run()
workerVars ==
    << running, registryVars, sessionVars, last_processing_time,
       processing_interval, pending_frame, detPc, detLocals >>

\* What a camera step leaves alone.
CamFrame ==
    UNCHANGED << workerVars, fmVars, shared, is_running, appVars, uiVars,
                 uiArg, now >>

\* Line 38: cv2.VideoCapture(self.camera_index, cv2.CAP_DSHOW), and the
\* test of line 40.
Cam_Open(opened) ==
    /\ camera_worker.pc = "open"
    /\ camera_worker' =
          [camera_worker EXCEPT
              !.capture = IF opened THEN "open" ELSE "closed",
              !.pc = IF opened THEN "setup" ELSE "fallback"]
    /\ obs' = [obs EXCEPT !.cam.tried = Append(@, "configured")]
    /\ CamFrame

\* Variant: after a failure the configured device is tried again.
Cam_Fallback_Retry(opened) ==
    /\ camera_worker.pc = "fallback"
    /\ camera_worker' =
          [camera_worker EXCEPT
              !.capture = IF opened THEN "open" ELSE "closed",
              !.pc = IF opened THEN "setup" ELSE "open"]
    /\ obs' = [obs EXCEPT !.cam.tried = Append(@, "default")]
    /\ CamFrame

\* Lines 42-45: cv2.VideoCapture(0); with no device opened the exception
\* of line 45 is raised.
Cam_Fallback(opened) ==
    /\ camera_worker.pc = "fallback"
    /\ camera_worker' =
          [camera_worker EXCEPT
              !.capture = IF opened THEN "open" ELSE "closed",
              !.pc = IF opened THEN "setup" ELSE "except"]
    /\ obs' = [obs EXCEPT !.cam.tried = Append(@, "default"),
                           !.cam.nodevice = ~opened]
    /\ CamFrame

\* Lines 48-55: the capture is configured and self.running = True.
Cam_SetRunning ==
    /\ camera_worker.pc = "setup"
    /\ camera_worker' =
          [camera_worker EXCEPT !.running = TRUE, !.frame_count = 0,
                                !.pc = "loop"]
    /\ CamFrame
    /\ UNCHANGED obs

\* Line 56: `while self.running`.  After MaxReads reads a running loop
\* goes on reading with nothing further recorded: no change of state.
Cam_LoopTest ==
    /\ camera_worker.pc = "loop"
    /\ camera_worker.running => obs.cam.attempts < MaxReads
    /\ camera_worker' =
          [camera_worker EXCEPT
              !.pc = IF camera_worker.running THEN "read" ELSE "finally"]
    /\ CamFrame
    /\ UNCHANGED obs

\* Lines 57-60: capture.read() returns a frame ("ok"), returns ret = False
\* ("fail": camera_error is emitted and the loop continues), or raises.
Cam_Read(outcome) ==
    /\ camera_worker.pc = "read"
    /\ camera_worker' =
          [camera_worker EXCEPT
              !.pc = CASE outcome = "ok" -> "emit"
                       [] outcome = "fail" -> "loop"
                       [] OTHER -> "except"]
    /\ obs' = [obs EXCEPT
          !.cam.attempts = @ + 1,
          !.cam.errors = IF outcome = "fail" THEN @ + 1 ELSE @,
          !.cam.misuse = (@ \/ camera_worker.capture # "open")]
    /\ CamFrame

\* Variant: the frame is emitted when the count after it is a multiple.
ShouldEmitFrame_After(count, skip) == (count + 1) % skip = 0

\* Line 63: frame_count % self.frame_skip == 0.
ShouldEmitFrame(count, skip) == count % skip = 0

\* Lines 63-67: the frame is emitted if its count is a multiple of the
\* frame skip; the count is advanced; the thread sleeps 33 ms.
Cam_Emit ==
    /\ camera_worker.pc = "emit"
    /\ camera_worker' =
          [camera_worker EXCEPT !.frame_count = @ + 1, !.pc = "loop"]
    /\ obs' = [obs EXCEPT
          !.cam.good = @ + 1,
          !.cam.emitted =
              IF ShouldEmitFrame(camera_worker.frame_count,
                                 camera_worker.frame_skip)
              THEN @ \cup {obs.cam.good} ELSE @,
          !.cam.late =
              (@ \/ (obs.cam.joined
                     /\ ShouldEmitFrame(camera_worker.frame_count,
                                        camera_worker.frame_skip)))]
    /\ CamFrame

\* Lines 69-71: the exception is logged and reported as camera_error.
Cam_Except ==
    /\ camera_worker.pc = "except"
    /\ camera_worker' = [camera_worker EXCEPT !.pc = "finally"]
    /\ obs' = [obs EXCEPT !.cam.errors = @ + 1]
    /\ CamFrame

\* Lines 72-75: a capture that was created is released; 'Camera stopped'
\* is emitted; run() returns.
Cam_Finally ==
    /\ camera_worker.pc = "finally"
    /\ camera_worker' =
          [camera_worker EXCEPT
              !.capture = IF @ = "none" THEN @ ELSE "released",
              !.pc = "done"]
    /\ obs' = [obs EXCEPT !.cam.stopped = @ + 1]
    /\ CamFrame

ReadOutcomes == {"ok", "fail", "raise"}

CameraThread ==
    \/ \E opened \in BOOLEAN : Cam_Open(opened)
    \/ \E opened \in BOOLEAN : Cam_Fallback(opened)
    \/ Cam_SetRunning
    \/ Cam_LoopTest
    \/ \E outcome \in ReadOutcomes : Cam_Read(outcome)
    \/ Cam_Emit
    \/ Cam_Except
    \/ Cam_Finally

\* ------------------------------------------------ start and stop
\* The application constructed (app.py 184-190): a FaceManager, no
\* workers yet.
InitApp ==
    /\ \E r \in Registries :
          /\ face_manager = ManagerOf(r)
          /\ faces_dir = DirOf(r)
    /\ encodings_pkl = NoSnapshot
    /\ camera_worker = CameraOff
    /\ is_running = FALSE
    /\ shared = {}
    /\ running = FALSE
    /\ known_face_encodings = <<>>
    /\ known_face_names = <<>>
    /\ session_seen_known = {}
    /\ session_seen_unknown_hashes = {}
    /\ last_processing_time = 0
    /\ processing_interval = DefaultInterval
    /\ pending_frame = SlotNone
    /\ detPc = "off"
    /\ frame = NoFrame
    /\ faceIdx = 0
    /\ cand = NoCand
    /\ detection_results = <<>>
    /\ uiPc = "idle"
    /\ uiFrame = NoFrame
    /\ uiArg = NoArg
    /\ now = StartTime
    /\ nextId = 1
    /\ session_records = <<>>
    /\ detection_signals = <<>>
    /\ obs = ObsInit

\* start_camera, app.py 633-676: both workers are constructed and
\* started; the detection worker gets the lists that get_face_encodings
\* and get_face_names return (workers.py 89-101) and the configured
\* interval.
StartCamera(skip, interval) ==
    /\ uiPc = "idle"
    /\ ~is_running
    /\ camera_worker' = CameraStarted(skip)
    /\ known_face_encodings' = face_manager.known_face_encodings
    /\ known_face_names' = face_manager.known_face_names
    /\ shared' = ListsReturnedShared
    /\ running' = FALSE
    /\ session_seen_known' = {}
    /\ session_seen_unknown_hashes' = {}
    /\ last_processing_time' = 0
    /\ processing_interval' = ClampInterval(interval)
    /\ pending_frame' = SlotNone
    /\ detPc' = "init"
    /\ is_running' = TRUE
    /\ obs' = [obs EXCEPT !.cam = [NoCam EXCEPT !.skip = skip],
                           !.propagate = FALSE]
    /\ UNCHANGED << fmVars, appVars, detLocals, uiVars, uiArg, now >>

\* Variant: stop() releases the device itself and does not wait for the
\* thread.
Stop_Camera_Release ==
    /\ uiPc = "idle"
    /\ is_running
    /\ camera_worker' = [camera_worker EXCEPT
                            !.running = FALSE,
                            !.capture = IF @ = "none" THEN @ ELSE "released"]
    /\ uiPc' = "stop_det"
    /\ running' = FALSE
    /\ obs' = [obs EXCEPT !.cam.joined = TRUE]
    /\ UNCHANGED << registryVars, sessionVars, last_processing_time,
                    processing_interval, pending_frame, detPc, detLocals,
                    fmVars, shared, is_running, appVars, uiFrame, nextId,
                    uiArg, now >>

\* stop_camera, app.py 685-690, and CameraWorker.stop, line 79:
\* self.running = False; the caller then waits (line 80).
Stop_Camera ==
    /\ uiPc = "idle"
    /\ is_running
    /\ camera_worker' = [camera_worker EXCEPT !.running = FALSE]
    /\ uiPc' = "stop_cam"
    /\ UNCHANGED << workerVars, fmVars, shared, is_running, appVars, uiFrame,
                    nextId, uiArg, now, obs >>

\* Line 80: wait() returns once the camera thread has left run(); app.py
\* 691-694 and DetectionWorker.stop, line 291: self.running = False.
Stop_CameraJoined ==
    /\ uiPc = "stop_cam"
    /\ camera_worker.pc = "done"
    /\ running' = FALSE
    /\ uiPc' = "stop_det"
    /\ obs' = [obs EXCEPT !.cam.joined = TRUE]
    /\ UNCHANGED << registryVars, sessionVars, last_processing_time,
                    processing_interval, pending_frame, detPc, detLocals,
                    fmVars, lifeVars, shared, appVars, uiFrame, nextId, uiArg,
                    now >>

\* Line 292: wait() returns once the detection thread has left run();
\* app.py 695-716: the worker is dropped and is_running cleared.
Stop_DetectionJoined ==
    /\ uiPc = "stop_det"
    /\ detPc = "done"
    /\ detPc' = "off"
    /\ is_running' = FALSE
    /\ uiPc' = "idle"
    /\ UNCHANGED << running, registryVars, sessionVars, last_processing_time,
                    processing_interval, pending_frame, detLocals, fmVars,
                    camera_worker, shared, appVars, uiFrame, nextId, uiArg,
                    now, obs >>

StopCamera ==
    \/ Stop_Camera
    \/ Stop_CameraJoined
    \/ Stop_DetectionJoined

\* Line 147: `while self.running` finds the flag cleared; run() returns.
Run_Exit ==
    /\ PollReady
    /\ ~running
    /\ detPc' = "done"
    /\ UNCHANGED << appVars, lifeVars, shared, running, registryVars, fmVars, uiArg,
                    sessionVars, last_processing_time, processing_interval,
                    pending_frame, detLocals, uiVars, now, obs >>

\* ------------------------------------------------------- environment
\* Wall-clock time passes: d quarter seconds.
Tick(d) ==
    /\ now + d <= StartTime + MaxTicks
    /\ now' = now + d
    /\ UNCHANGED << appVars, lifeVars, shared,
                    running, registryVars, fmVars, uiArg,
                    sessionVars, last_processing_time,
                    processing_interval, pending_frame, detPc, detLocals,
                    uiVars, obs >>

DetectionThread ==
    \/ Run_Start
    \/ Run_Poll
    \/ Run_Check
    \/ Run_Call
    \/ Process_Enter
    \/ Process_Raise
    \/ Process_Face
    \/ Process_Add
    \/ Process_Emit
    \/ Run_Stamp
    \/ Run_Del
    \/ Run_Clear
    \/ Run_LoopError

QueueFrame ==
    \/ Queue_Test
    \/ Queue_Del
    \/ Queue_Store

ResetSession ==
    \/ Reset_ClearKnown
    \/ Reset_ClearUnknown

\* The session: frames showing the enrolled person, resets, the interval
\* set to its floor, time passing in steps of the floor.
NextSession ==
    \/ DetectionThread
    \/ \E scene \in FaceScenes : OnFrameReady(scene)
    \/ QueueFrame
    \/ ResetSession
    \/ SetProcessingInterval(0)
    \/ Tick(MinInterval)

SpecSession == Init /\ [][NextSession]_vars

\* The scheduler: frames showing nobody or one stranger, every interval
\* argument, time passing by quarter seconds.
NextSched ==
    \/ DetectionThread
    \/ \E scene \in PlainScenes : OnFrameReady(scene)
    \/ QueueFrame
    \/ \E v \in IntervalArgs : SetProcessingInterval(v)
    \/ Tick(1)

SpecSched == Init /\ [][NextSched]_vars

\* The matching set: frames showing the enrolled person, the lists being
\* swapped, the interval at its floor, one second passing at a time.
NextMatch ==
    \/ DetectionThread
    \/ \E scene \in FaceScenes : OnFrameReady(scene)
    \/ QueueFrame
    \/ \E r \in MatchRegistries : UpdateKnownFaces(r)
    \/ Update_Encodings
    \/ Update_Names
    \/ SetProcessingInterval(0)
    \/ Tick(MaxTicks)

SpecMatch == Init /\ [][NextMatch]_vars

\* The registry alone: registrations with every kind of name, crop and
\* write outcome, and refreshes.
NextRegistry ==
    \/ \E raw \in RawNames, enc \in CropEncodings, written \in BOOLEAN,
          outcome \in SaveOutcomes :
            RegisterUnknownFace(raw, enc, written, outcome)
    \/ RefreshFaces

SpecRegistry == InitRegistry /\ [][NextRegistry]_vars

\* The application: a started worker, frames showing a stranger, the
\* stranger being registered, refreshes.
NextApp ==
    \/ DetectionThread
    \/ OnFrameReady(<<EncFar>>)
    \/ QueueFrame
    \/ \E outcome \in SaveOutcomes :
            HandleRegisterUnknown(" Al ", EncFar, TRUE, outcome)
    \/ AppRefreshFaces
    \/ Update_Encodings
    \/ Update_Names
    \/ SetProcessingInterval(0)
    \/ Tick(MaxTicks)

SpecApp == Init /\ [][NextApp]_vars

\* The lists in two hands: a worker constructed from the registry and
\* started, registrations, refreshes, and the lists being handed over.
NextCopies ==
    \/ StartCamera(1, 0)
    \/ Run_Start
    \/ \E raw \in {" Al ", "Bob", "Mary_Ann"}, enc \in CropEncodings,
          outcome \in SaveOutcomes :
            HandleRegisterUnknown(raw, enc, TRUE, outcome)
    \/ AppRefreshFaces
    \/ Update_Encodings
    \/ Update_Names

SpecCopies == InitApp /\ [][NextCopies]_vars

\* The camera started and stopped: both threads, frames showing the
\* enrolled person, no reset of the session.
NextLife ==
    \/ StartCamera(1, 0)
    \/ StopCamera
    \/ CameraThread
    \/ DetectionThread
    \/ Run_Exit
    \/ OnFrameReady(<<EncBob>>)
    \/ QueueFrame

SpecLife == InitApp /\ [][NextLife]_vars

\* Values the configuration may hold for the frame skip.
FrameSkips == {-1, 0, 1, 2, 3}

\* The camera: started with every frame skip, its thread with every
\* outcome of opening and reading, and stopped; the detection thread
\* only starts and ends.
NextCamera ==
    \/ \E skip \in FrameSkips : StartCamera(skip, 0)
    \/ CameraThread
    \/ StopCamera
    \/ Run_Start
    \/ Run_Exit

SpecCamera == InitApp /\ [][NextCamera]_vars

\* Starting and stopping with both threads scheduled fairly: a thread
\* that can take a step is not held back for ever, and wait() returns
\* once its thread has ended.  Starting and stopping are up to the user.
NextStop ==
    \/ StartCamera(1, 0)
    \/ StopCamera
    \/ CameraThread
    \/ Run_Start
    \/ Run_Exit

SpecStopFair ==
    /\ InitApp
    /\ [][NextStop]_vars
    /\ WF_vars(CameraThread)
    /\ WF_vars(Run_Start \/ Run_Exit)
    /\ WF_vars(Stop_CameraJoined \/ Stop_DetectionJoined)

\* Names that cannot be hashed: frames showing the enrolled person, the
\* lists handed over naming that person with a lone surrogate, resets,
\* the interval at its floor, one second passing at a time.
NextFaults ==
    \/ DetectionThread
    \/ \E scene \in FaceScenes : OnFrameReady(scene)
    \/ QueueFrame
    \/ ResetSession
    \/ \E r \in FaultRegistries : UpdateKnownFaces(r)
    \/ Update_Encodings
    \/ Update_Names
    \/ SetProcessingInterval(0)
    \/ Tick(MaxTicks)

SpecFaults == Init /\ [][NextFaults]_vars

\* The session records: frames showing a stranger, batches delivered to
\* the UI thread, the stranger registered from the thumbnail, resets.
NextRecords ==
    \/ DetectionThread
    \/ OnFrameReady(<<EncFar>>)
    \/ QueueFrame
    \/ OnDetectionResult
    \/ RegisterFromThumbnail(" Al ", EncFar, "ok")
    \/ Update_Encodings
    \/ Update_Names
    \/ ResetSession
    \/ SetProcessingInterval(0)
    \/ Tick(MaxTicks)

SpecRecords == Init /\ [][NextRecords]_vars

\* The scheduler with both threads scheduled fairly: the detection
\* thread takes its next step, a queue_frame call under way returns, and
\* time passes.  When frames arrive and when the interval is set is up to
\* the camera and the user.
NextLive ==
    \/ DetectionThread
    \/ OnFrameReady(<<EncFar>>)
    \/ QueueFrame
    \/ SetProcessingInterval(0)
    \/ Tick(MinInterval)

SpecLiveFair ==
    /\ Init
    /\ [][NextLive]_vars
    /\ WF_vars(DetectionThread)
    /\ WF_vars(QueueFrame)
    /\ WF_vars(Tick(MinInterval))

\* The de-duplication alone, applied once and again.
NextDedup == RemoveDuplicateEncodings

SpecDedup == InitDedup /\ [][NextDedup]_vars

Next ==
    \/ DetectionThread
    \/ \E scene \in Scenes : OnFrameReady(scene)
    \/ QueueFrame
    \/ ResetSession
    \/ \E r \in MatchRegistries : UpdateKnownFaces(r)
    \/ Update_Encodings
    \/ Update_Names
    \/ \E raw \in RawNames, enc \in CropEncodings, written \in BOOLEAN,
          outcome \in SaveOutcomes :
            HandleRegisterUnknown(raw, enc, written, outcome)
    \/ AppRefreshFaces
    \/ \E v \in IntervalArgs : SetProcessingInterval(v)
    \/ \E d \in {1, MinInterval} : Tick(d)

Spec == Init /\ [][Next]_vars

\* ================================================================ claims
IsKnownKey(k) == k[2] = -1

\* C1: between two reset_session calls (or from construction to the first
\* reset) at most one detection of type 'known' is emitted for any name.
C1_KnownOncePerSession ==
    \A k \in obs.twice : ~IsKnownKey(k)

\* C2: between two resets at most one Unknown detection is emitted per
\* distinct hash, and the hash of an emitted Unknown face is in
\* session_seen_unknown_hashes once its detection is emitted.
C2_UnknownOncePerHash ==
    \A k \in obs.twice : IsKnownKey(k)

\* The two latest process_frame calls have both returned and no step of
\* reset_session was taken while either was executing.
CleanPair ==
    /\ obs.prev.done /\ obs.cur.done
    /\ ~obs.prev.dirty /\ ~obs.cur.dirty

\* C3: the same face (a known name, or an unknown face with an identical
\* embedding) in two consecutively processed frames: with no reset in
\* between, the second frame emits nothing for it and the first emitted it
\* if it was new to the session (one in total); with a reset_session
\* completed between the two frames, the second frame emits it again (two
\* in total).
C3_DedupAcrossFrames ==
    CleanPair =>
        \A k \in obs.prev.fed \cap obs.cur.fed :
            /\ (obs.pairGap \in {"none", "complete"} /\ k \notin obs.prev.seen0)
                    => k \in obs.prev.em
            /\ obs.pairGap = "none" => k \notin obs.cur.em
            /\ obs.pairGap = "complete" => k \in obs.cur.em

\* A known name fed twice with a complete reset in between, emitted twice.
C3_Witness ==
    /\ CleanPair
    /\ obs.pairGap = "complete"
    /\ \E k \in obs.prev.em \cap obs.cur.em : IsKnownKey(k)

\* The detection thread performs the deduplication test of a face.
DedupStep ==
    /\ detPc = "face"
    /\ faceIdx <= Len(frame.faces)
    /\ (faceIdx' # faceIdx \/ detPc' = "add")

\* C4: reset_session is atomic with respect to a process_frame in flight:
\* no deduplication test runs between the two clears of a reset, and no
\* two tests of one frame run on different sides of a reset.
C4_ResetAtomic ==
    [][DedupStep => (uiPc # "reset_mid" /\ ~obs.cur.split)]_vars

\* ------------------------------------------------------------ scheduler
Processed == { obs.processedLog[i] : i \in 1..Len(obs.processedLog) }

\* C5: the slot holds at most one frame; after queue_frame calls F1..Fn
\* with no processing run in between the slot holds exactly Fn, and none of
\* the frames replaced in the slot is ever processed.
C5_LatestSurvives ==
    /\ pending_frame.st \in {"none", "deleted", "frame"}
    /\ (uiPc = "idle" /\ obs.lastQueued # 0 /\ ~obs.runSince)
          => (pending_frame.st = "frame" /\ pending_frame.id = obs.lastQueued)
    /\ Processed \cap obs.superseded = {}

\* F1 was replaced by F2 before any run, and F2 is the frame processed.
C5_Witness ==
    /\ 1 \in obs.superseded
    /\ obs.processedLog = <<2>>

\* C6: a frame queued while process_frame is in flight is held: it stays
\* in the slot until a later queue_frame replaces it or a later run takes
\* it.
C6_HeldDuringProcessing ==
    obs.held # 0 =>
        (pending_frame.st = "frame" /\ pending_frame.id = obs.held)

\* C7: each queued frame is handed to process_frame at most once.
C7_ProcessedAtMostOnce ==
    \A i, j \in 1..Len(obs.processedLog) :
        i # j => obs.processedLog[i] # obs.processedLog[j]

\* Two frames were handed over, the second queued while the first was
\* still the slot's frame or being processed.
C7_Witness ==
    /\ Len(obs.processedLog) = 2
    /\ detPc = "enter"

\* C8: at most one process_frame call is in flight; the loop decides on
\* the next run only when none is, however long the current one lasts.
C8_OneInFlight ==
    /\ obs.inFlight <= 1
    /\ detPc \in {"poll", "check", "call"} => obs.inFlight = 0

\* A run that has lasted longer than the interval, with another frame
\* waiting in the slot.
C8_Witness ==
    /\ obs.inFlight = 1
    /\ now - obs.startedAt > processing_interval
    /\ pending_frame.st = "frame"
    /\ pending_frame.id # frame.id

\* C9: a run starts only with a frame in the slot and after a check that
\* found (now - last_processing_time) >= processing_interval; when it
\* completes, last_processing_time is the completion time and the frame
\* it processed is no longer in the slot; with last_processing_time = 0
\* the check passes at once.
C9_Eligibility ==
    /\ detPc \in {"call", "enter"} =>
          (obs.checked > 0 /\ now - last_processing_time >= obs.checked)
    /\ detPc = "enter" => frame.id \in 1..MaxFrames
    /\ detPc = "del" =>
          (obs.returnedAt <= last_processing_time /\ last_processing_time <= now)
    /\ (~InRun /\ pending_frame.st = "frame") => pending_frame.id \notin Processed
    /\ last_processing_time = 0 => now - 0 >= processing_interval

\* A second run, started after the interval has passed since the first.
C9_Witness ==
    /\ detPc = "enter"
    /\ Len(obs.processedLog) = 2
    /\ last_processing_time > 0

\* The interval an eligibility check must compare with: the clamped
\* latest argument of set_processing_interval, else the constructor's.
IntervalInForce ==
    IF obs.argGiven THEN Max(MinInterval, obs.lastArg) ELSE DefaultInterval

\* C10: set_processing_interval(v) stores max(0.5, v); the stored interval
\* is never below 0.5 s; the next eligibility check uses the new value.
C10_IntervalFloor ==
    /\ [](processing_interval >= MinInterval
            /\ processing_interval = IntervalInForce)
    /\ [][(detPc = "check" /\ detPc' # "check") =>
             ((detPc' = "call") <=>
                 (now - last_processing_time >= IntervalInForce))]_vars

\* A value below the floor, given while a frame was pending or being
\* processed, was the one the check after the first run compared with.
C10_Witness ==
    /\ obs.argGiven /\ obs.lastArg < MinInterval /\ obs.setWhileBusy
    /\ last_processing_time > 0
    /\ detPc = "call"
    /\ obs.checked = MinInterval

\* C11: two consecutive process_frame calls of one worker are at least
\* 0.5 s apart, whatever the frame rate and the interval settings, and at
\* least the interval apart that the check before the later call compared
\* with (at most one run per configured interval).
C11_Spacing ==
    /\ obs.spacing # -1 => obs.spacing >= MinInterval
    /\ (detPc = "enter" /\ obs.spacing # -1) => obs.spacing >= obs.checked

\* Two calls exactly 0.5 s apart under an interval requested below the
\* floor.
C11_Witness ==
    /\ detPc = "enter"
    /\ obs.spacing = MinInterval
    /\ obs.argGiven /\ obs.lastArg < MinInterval

\* ------------------------------------------------------- classification
\* The label l is the one specified for a face with embedding enc against
\* the lists encs and names: Unknown on an empty list; else Known exactly
\* when some distance is below the threshold, named after the first index
\* holding the minimum distance.
LabelAsSpecified(l, encs, names, enc) ==
    LET ds == face_distances(encs, enc)
        n == Len(encs)
    IN  /\ l.type \in {"known", "unknown"}
        /\ l.type = "known" <=> \E i \in 1..n : ds[i] < ThresholdSq
        /\ l.type = "known" =>
              \E i \in 1..n :
                  /\ \A j \in 1..n : ds[i] <= ds[j]
                  /\ \A j \in 1..(i - 1) : ds[j] > ds[i]
                  /\ l.name = names[i]
        /\ l.type = "unknown" => l.name = "Unknown"

\* C12: a face is Unknown when the known-encodings list is empty; else it
\* is Known, with the name at the first index of the minimum distance, if
\* and only if that distance is strictly below 0.6; a Known event carries
\* the matched name and status 'Present', an Unknown event name 'Unknown'
\* and status 'Unknown'.  (The two lists have equal lengths.)
C12_Classification ==
    [][(DedupStep /\ Len(known_face_encodings) = Len(known_face_names)) =>
          /\ LabelAsSpecified(obs'.label, known_face_encodings,
                              known_face_names, frame.faces[faceIdx])
          /\ detPc' = "add" =>
                /\ cand'.type = obs'.label.type
                /\ cand'.name = obs'.label.name
                /\ cand'.status =
                      (IF cand'.type = "known" THEN "Present" ELSE "Unknown")
       ]_vars

\* A face as far from Al as from Bob, named after the first of the two.
C12_Witness ==
    /\ detPc = "add"
    /\ known_face_names = <<"Al", "Bob">>
    /\ known_face_encodings = <<EncAl, EncBob>>
    /\ obs.label = [type |-> "known", name |-> "Al", enc |-> EncBobTilt]
    /\ cand.status = "Present"

\* ------------------------------------------------------------- batches
\* The detections a frame must yield: its faces in order, each classified
\* and kept when its key is neither in the session nor met earlier in the
\* frame.
RECURSIVE NewDetections(_, _, _)
NewDetections(faces, seen, i) ==
    IF i > Len(faces) THEN <<>>
    ELSE LET d == Detection(ClassifyFace(known_face_encodings,
                                         known_face_names, faces[i]),
                            faces[i])
         IN  IF KeyOf(d) \in seen
             THEN NewDetections(faces, seen, i + 1)
             ELSE <<d>> \o NewDetections(faces, seen \cup {KeyOf(d)}, i + 1)

\* C13: a processed frame emits at most one detection_result batch, and
\* emits it if and only if a face of the frame passed deduplication; the
\* batch holds exactly the detections of the newly seen faces, in face
\* order, and total_faces counts every face located in the frame.  (The
\* content is compared for frames no reset_session step overlaps.)
C13_BatchPerFrame ==
    [][(detPc = "emit" /\ detPc' = "stamp") =>
          LET b == obs'.batch
          IN  /\ b.count <= 1
              /\ b.count = 1 <=> obs.cur.em # {}
              /\ b.count = 1 =>
                    /\ b.total_faces = Len(frame.faces)
                    /\ Len(b.detections) <= b.total_faces
                    /\ { KeyOf(b.detections[i]) :
                            i \in 1..Len(b.detections) } = obs.cur.em
              /\ ~obs.cur.dirty =>
                    b.detections = NewDetections(frame.faces, obs.cur.seen0, 1)
       ]_vars

\* A frame of two faces of which one was deduplicated: one detection,
\* total_faces two.
C13_Witness ==
    /\ detPc = "stamp"
    /\ ~obs.cur.dirty
    /\ obs.batch.count = 1
    /\ Len(obs.batch.detections) = 1
    /\ obs.batch.total_faces = 2

\* ------------------------------------------------------------ failures
\* C14: a failure while a frame is processed is reported and never stops
\* the worker: the thread stays in its loop with running set, the failed
\* frame leaves the slot and is not handed over again, a frame queued once
\* the failed run is over stays in the slot until it is replaced or
\* handed over, and the checks that follow decide as before.
C14_FailureNotFatal ==
    /\ [](/\ detPc # "dead"
          /\ detPc # "init" => running
          /\ \A i, j \in 1..Len(obs.processedLog) :
                (obs.processedLog[i] \in obs.failed /\ i # j)
                    => obs.processedLog[i] # obs.processedLog[j]
          /\ (~InRun /\ pending_frame.st = "frame")
                => pending_frame.id \notin obs.failed
          /\ obs.kept # 0
                => (pending_frame.st = "frame"
                    /\ pending_frame.id = obs.kept))
    /\ [][(detPc = "enter" /\ detPc' # "enter" /\ detPc' # "face")
             => (detPc' = "stamp"
                 /\ (running => frame.id \in obs'.failed))]_vars
    /\ [][(detPc = "check" /\ detPc' # "check" /\ obs.failed # {})
             => (detPc' = "call" <=> should_process_frame)]_vars

\* The first frame failed; the second one, queued later, is being
\* processed.
C14_Witness ==
    /\ obs.failed = {1}
    /\ obs.processedLog = <<1, 2>>
    /\ detPc = "face"

\* ------------------------------------------------------------ hot swap
\* C15: every face evaluated by a process_frame call that started after
\* update_known_faces returned is matched against exactly the lists of
\* that call; the steps of update_known_faces leave the session, the
\* slot, the interval and the worker's loop as they are.
C15_HotSwap ==
    /\ [][(DedupStep /\ obs.updGiven /\ ~obs.cur.swapped) =>
             /\ known_face_encodings = obs.lastUpd.encodings
             /\ known_face_names = obs.lastUpd.names
             /\ LabelAsSpecified(obs'.label, obs.lastUpd.encodings,
                                 obs.lastUpd.names, frame.faces[faceIdx])
          ]_vars
    /\ [][(uiPc \in {"upd_enc", "upd_names"} /\ uiPc' # uiPc) =>
             UNCHANGED << sessionVars, pending_frame, processing_interval,
                          last_processing_time, running, detPc >>]_vars

\* The lists were swapped between two frames; a face of the second frame
\* is named after the new first entry.
C15_Witness ==
    /\ obs.updGiven /\ ~obs.cur.swapped
    /\ Len(obs.processedLog) = 2
    /\ obs.prev.done /\ ~obs.prev.swapped
    /\ obs.lastUpd.names = <<"Al", "Bob">>
    /\ obs.label.type = "known" /\ obs.label.name = "Al"

\* ------------------------------------------------------------ registry
\* C16: after every successful registration and every refresh made while
\* a detection worker is started, the worker's encodings and names equal
\* the registry's, however the UI action interleaves with the start of
\* the worker's thread.
C16_WorkerInSync ==
    (uiPc = "idle" /\ obs.propagate) =>
        /\ known_face_encodings = face_manager.known_face_encodings
        /\ known_face_names = face_manager.known_face_names

\* A call of register_unknown_face is made in this step.
RegisterStep == obs'.ops # obs.ops /\ obs'.op = "register"

\* C17: register_unknown_face answers failure and leaves names,
\* encodings, stored images, directory and snapshot as they were when the
\* name is empty or blank, when the trimmed name is already registered,
\* when the crop yields no embedding, and when the image cannot be
\* written; so the second of two registrations of one name fails.
C17_FailureLeavesRegistry ==
    [][RegisterStep =>
          LET r == obs'.reg
          IN  /\ (\/ r.raw \in {"", " "}
                  \/ strip(r.raw) \in Range(face_manager.known_face_names)
                  \/ r.enc = NoEnc
                  \/ ~r.written) => ~r.ok
              /\ ~r.ok => UNCHANGED fmVars
       ]_vars

\* "Al" was registered, and " Al " was refused afterwards.
C17_Witness ==
    /\ obs.ops = 2 /\ obs.op = "register"
    /\ ~obs.reg.ok
    /\ obs.reg.raw = " Al " /\ obs.reg.enc # NoEnc /\ obs.reg.written
    /\ face_manager.known_face_names = <<"Al">>

\* C18: no name occurs twice in known_face_names, after construction from
\* any directory and snapshot and after any registrations and refreshes.
C18_NamesUnique ==
    \A i, j \in 1..Len(face_manager.known_face_names) :
        i # j => face_manager.known_face_names[i]
                    # face_manager.known_face_names[j]

\* What a successful register_unknown_face does to memory and directory.
RegisterAppends ==
    LET r == obs'.reg
        name == strip(r.raw)
        old == face_manager
        new == face_manager'
        n == Len(new.known_face_names)
    IN  /\ n = Len(old.known_face_names) + 1
        /\ Len(new.known_face_encodings) = n
        /\ new.known_face_names[n] = name
        /\ new.known_face_encodings[n] = r.enc
        /\ SubSeq(new.known_face_names, 1, n - 1) = old.known_face_names
        /\ SubSeq(new.known_face_encodings, 1, n - 1)
              = old.known_face_encodings
        /\ <<name, r.enc>> \in new.known_face_images
        /\ { p \in new.known_face_images : p[1] # name }
              = { p \in old.known_face_images : p[1] # name }
        /\ \E i \in 1..Len(faces_dir') :
              /\ faces_dir'[i].name = name /\ faces_dir'[i].stamp = now
              /\ \A j \in 1..Len(faces_dir') :
                    j # i => (j <= Len(faces_dir) /\ faces_dir'[j] = faces_dir[j])

C20_LostDurability ==
    /\ [][(RegisterStep /\ obs'.reg.outcome # "ok"
             /\ obs'.reg.raw \notin {"", " "}
             /\ strip(obs'.reg.raw)
                   \notin Range(face_manager.known_face_names)
             /\ obs'.reg.enc # NoEnc /\ obs'.reg.written) =>
               /\ obs'.reg.ok
               /\ strip(obs'.reg.raw)
                     \in Range(face_manager'.known_face_names)
               /\ obs'.reg.enc \in Range(face_manager'.known_face_encodings)
               /\ obs'.volatile = obs'.reg.enc
          ]_vars
    /\ [][(/\ DedupStep
            /\ obs.volatile # NoEnc
            /\ frame.faces[faceIdx] = obs.volatile
            /\ uiPc = "idle"
            /\ obs.updGiven
            /\ obs.lastUpd.encodings = face_manager.known_face_encodings
            /\ obs.lastUpd.names = face_manager.known_face_names) =>
               obs'.label.type = "known"
          ]_vars

\* The stranger was registered as "Al" with the snapshot write failing,
\* and is recognised by the worker.
C20_Witness ==
    /\ obs.volatile = EncFar
    /\ encodings_pkl.st # "ok"
    /\ obs.label = [type |-> "known", name |-> "Al", enc |-> EncFar]
    /\ detPc = "add"

\* --------------------------------------------------------------- refresh
\* A call of refresh_faces is made in this step.
RefreshStep == obs'.ops # obs.ops /\ obs'.op = "refresh"

\* The names the directory scan finds: one for every image showing a face.
ScanNames(dir) ==
    { NameFromStem(dir[i].name) :
        i \in { j \in 1..Len(dir) : dir[j].enc # NoEnc } }

\* The names a readable snapshot contains.
SnapshotNames(pkl) == IF pkl.st = "ok" THEN Range(pkl.names) ELSE {}

\* C21: after refresh_faces the registry holds exactly one identity for
\* every name found by the directory scan or contained in the snapshot
\* (the union of both, deduplicated by name), and a name of the snapshot
\* has the snapshot's embedding.
C21_RefreshUnion ==
    [][RefreshStep =>
          LET names == face_manager'.known_face_names
              encs == face_manager'.known_face_encodings
          IN  /\ Len(encs) = Len(names)
              /\ \A i, j \in 1..Len(names) : i # j => names[i] # names[j]
              /\ Range(names) =
                    ScanNames(faces_dir) \cup SnapshotNames(encodings_pkl)
              /\ \A i \in 1..Len(names) :
                    names[i] \in SnapshotNames(encodings_pkl) =>
                        \E k \in 1..Len(encodings_pkl.names) :
                            /\ encodings_pkl.names[k] = names[i]
                            /\ encodings_pkl.encodings[k] = encs[i]
       ]_vars

\* C22: a successful register_unknown_face followed by refresh_faces
\* leaves the registered name in the registry, for every accepted name
\* and every outcome of the snapshot write, and a face with the registered
\* embedding, classified Known under that name before the refresh, is
\* classified so after it.
C22_RoundTrip ==
    [][(RefreshStep /\ obs.op = "register" /\ obs.reg.ok) =>
          LET name == strip(obs.reg.raw)
              fm == face_manager'
              known == [type |-> "known", name |-> name]
          IN  /\ name \in Range(fm.known_face_names)
              /\ ClassifyFace(face_manager.known_face_encodings,
                              face_manager.known_face_names, obs.reg.enc)
                    = known
                 => ClassifyFace(fm.known_face_encodings,
                                 fm.known_face_names, obs.reg.enc) = known
       ]_vars

\* ------------------------------------------------------ defensive copies
\* C23: the lists get_face_encodings and get_face_names return are copies:
\* those a worker was constructed with are none of the registry's own
\* list objects and are left as they are by every later
\* register_unknown_face and refresh_faces; the worker's lists change only
\* in the two assignments of update_known_faces.
C23_DefensiveCopies ==
    /\ [](shared = {})
    /\ [][(RegisterStep \/ RefreshStep) => UNCHANGED registryVars]_vars
    /\ [][(detPc # "off" /\ detPc' # "off"
             /\ known_face_encodings' # known_face_encodings)
             => (uiPc = "upd_enc" /\ uiPc' = "upd_names")]_vars
    /\ [][(detPc # "off" /\ detPc' # "off"
             /\ known_face_names' # known_face_names)
             => (uiPc = "upd_names" /\ uiPc' = "idle")]_vars

\* A worker constructed with Bob alone; "Al" was registered since, and the
\* worker's lists are as they were.
C23_Witness ==
    /\ is_running
    /\ obs.op = "register" /\ obs.reg.ok
    /\ face_manager.known_face_names = <<"Bob", "Al">>
    /\ known_face_names = <<"Bob">>
    /\ known_face_encodings = <<EncBob>>

\* ------------------------------------------------------- one session
\* C24: from the start of the application, with no reset of the session,
\* no known name is emitted more than once, however the camera is started
\* and stopped in between.
C24_OncePerSessionAcrossRestarts ==
    \A n \in Range(face_manager.known_face_names) :
        <<n, -1>> \notin obs.twice

\* --------------------------------------------------------------- camera
\* C25: with N = max(1, configured frame skip), the k-th successfully
\* read frame (k from 0) is emitted if and only if k mod N = 0; the frame
\* skip in force is never below 1; a failed read emits camera_error and no
\* frame and leaves the thread in its loop, and later frames are emitted
\* by the same rule.
C25_EveryNthFrame ==
    /\ [](LET N == Max(1, obs.cam.skip)
          IN  /\ camera_worker.frame_skip >= 1
              /\ camera_worker.pc # "off" => camera_worker.frame_skip = N
              /\ obs.cam.emitted =
                    { k \in 0..(obs.cam.good - 1) : k % N = 0 })
    /\ [][(camera_worker.pc = "read" /\ camera_worker'.pc = "loop") =>
             /\ obs'.cam.errors = obs.cam.errors + 1
             /\ obs'.cam.emitted = obs.cam.emitted
             /\ obs'.cam.good = obs.cam.good
             /\ camera_worker'.running = camera_worker.running
             /\ camera_worker'.frame_count = camera_worker.frame_count
          ]_vars

\* Frame skip 2: three frames read with one failed read among them; the
\* first and the third were emitted.
C25_Witness ==
    /\ obs.cam.skip = 2
    /\ obs.cam.good = 3 /\ obs.cam.errors = 1
    /\ obs.cam.emitted = {0, 2}
    /\ camera_worker.pc = "loop"

\* C26: the camera thread tries the configured device first and device 0
\* if that fails; when neither opens there is exactly one camera_error,
\* no read and no frame, no further attempt to open, and the thread ends
\* through its handler, emitting 'Camera stopped' once.
C26_OpenFailureTerminal ==
    /\ obs.cam.tried \in
          { <<>>, <<"configured">>, <<"configured", "default">> }
    /\ (Len(obs.cam.tried) = 2) => camera_worker.pc # "fallback"
    /\ obs.cam.nodevice =>
          /\ obs.cam.tried = <<"configured", "default">>
          /\ camera_worker.pc \in {"except", "finally", "done"}
          /\ obs.cam.attempts = 0 /\ obs.cam.emitted = {}
          /\ ~camera_worker.running
          /\ obs.cam.errors = (IF camera_worker.pc = "except" THEN 0 ELSE 1)
          /\ obs.cam.stopped = (IF camera_worker.pc = "done" THEN 1 ELSE 0)

\* Neither device opened, and the thread has ended.
C26_Witness ==
    /\ obs.cam.nodevice
    /\ camera_worker.pc = "done"
    /\ obs.cam.errors = 1 /\ obs.cam.stopped = 1

\* C28: the capture is read only while it is open and never after its
\* release; it is released only when the thread has left its loop for
\* good, and always by the time the thread has ended (after a normal
\* stop, a failed open or an exception in the loop); once stop() has
\* returned the worker emits no further frame.
C28_NoUseAfterRelease ==
    /\ [](/\ ~obs.cam.misuse
          /\ ~obs.cam.late
          /\ camera_worker.capture = "released" <=> camera_worker.pc = "done"
          /\ camera_worker.pc = "read" => camera_worker.capture = "open"
          /\ obs.cam.joined => camera_worker.pc = "done")
    /\ [][camera_worker.capture = "released" =>
             /\ obs'.cam.attempts = 0 \/ obs'.cam.attempts = obs.cam.attempts
             /\ obs'.cam.emitted = {} \/ obs'.cam.emitted = obs.cam.emitted
          ]_vars

\* Frames were read and emitted; stop() has returned with the capture
\* released.
C28_Witness ==
    /\ obs.cam.joined
    /\ obs.cam.attempts >= 2 /\ obs.cam.emitted # {}
    /\ camera_worker.capture = "released"

\* ------------------------------------------------------------- stopping
\* C27: every stop() of a started worker returns, with the worker's loop
\* exited, for the camera worker and for the detection worker, however
\* the call interleaves with the start of the worker's thread.
C27_StopCompletes ==
    /\ (uiPc = "stop_det") ~> (uiPc = "idle" /\ detPc = "off")
    /\ (uiPc = "stop_cam") ~> (uiPc = "stop_det" /\ camera_worker.pc = "done")

\* ------------------------------------------------------------ torn reads
\* The matching sets the worker is ever given, and the name each of them
\* pairs with an embedding.
Versions == Registries \cup MatchRegistries

PairedIn(r, name, enc) ==
    \E i \in 1..Len(r.names) : r.names[i] = name /\ r.encodings[i] = enc

\* C29: the encodings a face is compared with and the names indexed with
\* the best match belong to one version of the matching set, under every
\* interleaving of update_known_faces with process_frame: the index is in
\* range and the name emitted is the one paired with the matched
\* embedding.
C29_NoTornReads ==
    [][DedupStep =>
          LET encs == known_face_encodings
              face == frame.faces[faceIdx]
              l == obs'.label
          IN  /\ \E r \in Versions :
                    r.encodings = encs /\ r.names = known_face_names
              /\ l.type # "error"
              /\ l.type = "known" =>
                    \E r \in Versions :
                        PairedIn(r, l.name,
                                 encs[argmin(face_distances(encs, face))])
       ]_vars

\* ----------------------------------------------------------- queue_frame
\* C30: every queue_frame(f) call returns with the slot holding f, under
\* every interleaving with the detection loop, and the detection thread
\* never finds the slot in a state other than empty or a whole frame, so
\* that its loop never takes the path of its error handler.
C30_QueueAtomic ==
    /\ [](detPc # "error")
    /\ [][(uiPc \in {"q_test", "q_del", "q_store"} /\ uiPc' = "idle")
             => pending_frame' = SlotOf(uiFrame)]_vars

\* ------------------------------------------------------- detection hash
\* C31: the detection hash is a function of the label and the whole
\* embedding: within one frame processed from an empty session, the hash
\* of a face equals that of an earlier face given the same label if and
\* only if their embeddings are identical, so an Unknown face is emitted
\* unless an earlier face of the frame has the identical embedding.
C31_HashWholeEmbedding ==
    [][(DedupStep /\ obs.cur.seen0 = {} /\ ~obs.cur.dirty) =>
          LET face == frame.faces[faceIdx]
              l == obs'.label
          IN  /\ \A j \in 1..(faceIdx - 1) :
                    (generate_detection_hash(frame.faces[j], l.name)
                        = generate_detection_hash(face, l.name))
                    <=> frame.faces[j] = face
              /\ l.type = "unknown" =>
                    (detPc' = "add" <=>
                        \A j \in 1..(faceIdx - 1) : frame.faces[j] # face)
       ]_vars

\* ------------------------------------------------- load against refresh
\* C32: construction and refresh_faces reconcile alike: a refresh made
\* right after construction, over the same directory and snapshot, leaves
\* names, encodings and stored images as construction left them.
C32_RefreshAsLoad ==
    [][(RefreshStep /\ obs.ops = 0) => face_manager' = face_manager]_vars

\* -------------------------------------------------------- de-duplication
\* A call of _remove_duplicate_encodings is made in this step.
DedupCall == obs'.ops # obs.ops /\ obs'.op = "dedup"

\* The highest index at which the list names holds the name nm.
LastIndexOf(names, nm) ==
    CHOOSE i \in 1..Len(names) :
        names[i] = nm /\ \A j \in (i + 1)..Len(names) : names[j] # nm

\* C33: _remove_duplicate_encodings keeps every distinct name exactly
\* once, with the embedding of its last entry, in the order of these last
\* entries; the stored images are restricted to the kept names; a second
\* application changes nothing.
C33_StableLastWins ==
    [][DedupCall =>
          LET old == face_manager
              new == face_manager'
              m == Len(new.known_face_names)
          IN  /\ Len(new.known_face_encodings) = m
              /\ \A k, l \in 1..m :
                    k # l => new.known_face_names[k] # new.known_face_names[l]
              /\ Range(new.known_face_names) = Range(old.known_face_names)
              /\ \A k \in 1..m :
                    new.known_face_encodings[k] =
                        old.known_face_encodings[
                            LastIndexOf(old.known_face_names,
                                        new.known_face_names[k])]
              /\ \A k, l \in 1..m :
                    k < l =>
                        LastIndexOf(old.known_face_names,
                                    new.known_face_names[k])
                          < LastIndexOf(old.known_face_names,
                                        new.known_face_names[l])
              /\ new.known_face_images =
                    { p \in old.known_face_images :
                        p[1] \in Range(new.known_face_names) }
              /\ remove_duplicate_encodings(new) = new
       ]_vars

\* Bob, Al, Bob became Al, Bob with Bob's later embedding; the image kept
\* for a name not in the list is gone.
C33_Witness ==
    /\ obs.op = "dedup" /\ obs.ops = 1
    /\ obs.dedupIn.names = <<"Bob", "Al", "Bob">>
    /\ obs.dedupIn.encodings = <<EncBob, EncBob, EncBobTilt>>
    /\ face_manager.known_face_names = <<"Al", "Bob">>
    /\ face_manager.known_face_encodings = <<EncBob, EncBobTilt>>
    /\ face_manager.known_face_images = { <<"Al", EncAl>> }

\* ------------------------------------------------------------ alignment
\* The (name, embedding) pairs a registry holds, index by index.
PairsOf(fm) ==
    { <<fm.known_face_names[i], fm.known_face_encodings[i]>> :
        i \in (1..Len(fm.known_face_names))
                 \cap (1..Len(fm.known_face_encodings)) }

\* The pairs the directory scan and a readable snapshot provide.
SourcePairs(dir, pkl) ==
    { <<NameFromStem(dir[i].name), dir[i].enc>> :
        i \in { j \in 1..Len(dir) : dir[j].enc # NoEnc } }
    \cup (IF pkl.st = "ok"
          THEN { <<pkl.names[i], pkl.encodings[i]>> : i \in 1..Len(pkl.names) }
          ELSE {})

\* C34: the registry's encodings and names are index-aligned in every
\* reachable state: the lists are equally long; after construction and
\* after a refresh every entry pairs a name with the embedding the
\* directory scan or the snapshot gives for it; a successful registration
\* adds the pair of the trimmed name and the crop's embedding and keeps
\* the others; a failed one changes no pair.
C34_ListsAligned ==
    /\ [](Len(face_manager.known_face_encodings)
            = Len(face_manager.known_face_names))
    /\ [](obs.ops = 0 =>
            PairsOf(face_manager) \subseteq
                SourcePairs(faces_dir, encodings_pkl))
    /\ [][RefreshStep =>
            PairsOf(face_manager') \subseteq
                SourcePairs(faces_dir, encodings_pkl)]_vars
    /\ [][RegisterStep =>
            PairsOf(face_manager') =
                PairsOf(face_manager) \cup
                    (IF obs'.reg.ok
                     THEN { <<strip(obs'.reg.raw), obs'.reg.enc>> }
                     ELSE {})]_vars

\* "Al" was registered after Bob with the snapshot write failing, and the
\* refresh paired both names with the embeddings of their images.
C34_Witness ==
    /\ obs.ops = 2 /\ obs.op = "refresh"
    /\ encodings_pkl.st # "ok"
    /\ face_manager.known_face_names = <<"Bob", "Al">>
    /\ face_manager.known_face_encodings = <<EncBob, LoadedEncoding(EncAl)>>

\* ------------------------------------------------------ seen and reported
\* C35: a name enters session_seen_known only in the step that returns a
\* 'known' detection for it to process_frame, and the batch emitted at the
\* end of the frame holds every detection so returned: no face is left
\* marked as seen without having been reported.
C35_SeenOnlyIfReported ==
    /\ [][\A n \in session_seen_known' \ session_seen_known :
             /\ Len(detection_results') = Len(detection_results) + 1
             /\ detection_results'[Len(detection_results')].type = "known"
             /\ detection_results'[Len(detection_results')].name = n
          ]_vars
    /\ [][(detPc = "emit" /\ detPc' = "stamp") =>
             obs'.batch.detections = detection_results]_vars

\* ------------------------------------------------------ session records
\* C36: between two session resets session_records holds at most one
\* 'Present' record per name, however detection batches, registrations of
\* unknown faces and resets interleave.
C36_OnePresentPerName ==
    \A i, j \in 1..Len(session_records) :
        (/\ i # j
         /\ session_records[i].Status = "Present"
         /\ session_records[j].Status = "Present")
            => session_records[i].Name # session_records[j].Name

\* ------------------------------------------------------------- liveness
\* The clock of the model has reached its horizon before the interval
\* has elapsed: no later eligibility check can pass.
HorizonReached ==
    /\ now = StartTime + MaxTicks
    /\ ~should_process_frame

\* C37: under fair scheduling of both threads a frame that is stored in
\* the slot is eventually handed to process_frame, unless a later
\* queue_frame call replaces it first (or the clock of the model ends
\* before the interval has elapsed).
C37_QueuedEventuallyProcessed ==
    \A f \in 1..MaxFrames :
        (pending_frame.st = "frame" /\ pending_frame.id = f)
            ~> (\/ f \in Processed
                \/ f \in obs.superseded
                \/ HorizonReached)

\* ---------------------------------------------------- nothing after stop
\* C38: once stop() has cleared running on a detection worker, a
\* process_frame call that starts afterwards returns at once, emitting
\* nothing and leaving session_seen_known and session_seen_unknown_hashes
\* as they are; after stop() has returned the worker emits nothing.
C38_NothingAfterStop ==
    /\ []((uiPc = "stop_det" /\ detPc \in {"call", "enter"}) => ~running)
    /\ [][(uiPc = "stop_det" /\ detPc = "enter" /\ detPc' # "enter") =>
             /\ detPc' = "stamp"
             /\ UNCHANGED << sessionVars, detection_signals >>]_vars
    /\ [][(detPc = "off" /\ detPc' = "off") =>
             /\ Len(detection_signals') <= Len(detection_signals)
             /\ UNCHANGED sessionVars]_vars

\* stop() cleared running between the eligibility check and the call:
\* process_frame was called with the pending frame and returned at once.
C38_Witness ==
    /\ uiPc = "stop_det" /\ ~running
    /\ detPc = "stamp"
    /\ Len(obs.processedLog) = 1 /\ obs.failed = {}
    /\ obs.cur.done /\ obs.cur.fed = {}
    /\ session_seen_known = {} /\ detection_signals = <<>>

\* ------------------------------------------------- file name round trip
\* C39: for every name register_unknown_face accepts, the name the
\* directory scan derives from the image file written for it equals the
\* registered name.
C39_FilenameRoundTrip ==
    [][(RegisterStep /\ obs'.reg.ok) =>
          LET name == strip(obs'.reg.raw)
          IN  /\ \E i \in 1..Len(faces_dir') :
                     faces_dir'[i].name = name /\ faces_dir'[i].stamp = now
              /\ \A i \in 1..Len(faces_dir') :
                     (faces_dir'[i].name = name /\ faces_dir'[i].stamp = now)
                         => NameFromStem(faces_dir'[i].name) = name
       ]_vars

====
